---------------------------- MODULE Spec2Model ----------------------------
(***************************************************************************)
(* Model of the odsluchane-to-spotify synchronization engine: the sync     *)
(* command (runSyncCommand), the playlist index, the processed-window      *)
(* memory and the pure helpers they rest on.                               *)
(*                                                                         *)
(* Strings are sequences of one-character strings, so that normalize and   *)
(* buildSongKey are computed character by character as the code does.      *)
(***************************************************************************)
EXTENDS Integers, Sequences, FiniteSets, TLC

(***************************************************************************)
(* Bounds of the model.                                                    *)
(***************************************************************************)
MaxSongs == 2        \* songs the source serves to a single run (Spec)
MaxCandidates == 2   \* tracks a Spotify search returns
MaxRuns == 2         \* runs in sequence (SpecRerun)
MaxRerunSongs == 1   \* songs the source serves to a sequence of runs (SpecRerun)
MaxBatch == 205      \* tracks one call of addTracksToPlaylist is given (SpecAdd)
MaxItems == 101        \* items of the playlist whose index is built page by page
MaxRequests == 3       \* requests that reach the callback listener of auth
MaxRetriesArg == 4   \* the largest options.maxRetries given to fetchWithRetry (SpecFetch)

(***************************************************************************)
(* common/string.ts                                                        *)
(***************************************************************************)
LowerLetters ==
  {"a","b","c","d","e","f","g","h","i","j","k","l","m",
   "n","o","p","q","r","s","t","u","v","w","x","y","z"}

Digits == {"0","1","2","3","4","5","6","7","8","9"}

\* The capital letters of the model and, at the same positions, their small
\* letters: A-Z, two letters with an acute accent and one with a stroke.
UpperCase ==
  <<"A","B","C","D","E","F","G","H","I","J","K","L","M",
    "N","O","P","Q","R","S","T","U","V","W","X","Y","Z","Á","É","Ø">>

LowerCase ==
  <<"a","b","c","d","e","f","g","h","i","j","k","l","m",
    "n","o","p","q","r","s","t","u","v","w","x","y","z","á","é","ø">>

\* String.prototype.toLowerCase, on the characters the model uses.
toLowerCase(c) ==
  IF \E i \in DOMAIN UpperCase : UpperCase[i] = c
  THEN LowerCase[CHOOSE i \in DOMAIN UpperCase : UpperCase[i] = c]
  ELSE c

\* String.prototype.normalize('NFKD'): a precomposed letter becomes its base
\* letter followed by a combining mark (U+0301 is written "´").  A letter
\* with a stroke (ø, and likewise ł or đ) has no decomposition.
NFKD(c) ==
  CASE c = "á" -> <<"a", "´">>
    [] c = "é" -> <<"e", "´">>
    [] OTHER -> <<c>>

\* The combining diacritical marks U+0300..U+036F.
CombiningMarks == {"´"}

\* \w of a JavaScript regular expression without the u flag.
IsWordChar(c) ==
  \/ c \in LowerLetters \cup Digits \cup {"_"}
  \/ \E i \in 1..26 : UpperCase[i] = c

RECURSIVE FlatMap(_, _)
FlatMap(s, i) ==
  IF i > Len(s) THEN <<>> ELSE NFKD(toLowerCase(s[i])) \o FlatMap(s, i + 1)

\* Index of the first occurrence of c in s at or after i, 0 when there is none.
RECURSIVE IndexFrom(_, _, _)
IndexFrom(s, c, i) ==
  IF i > Len(s) THEN 0
  ELSE IF s[i] = c THEN i
  ELSE IndexFrom(s, c, i + 1)

\* .replace(/\(.*?\)|\[.*?\]/g, ' ')
RECURSIVE RemoveBrackets(_, _)
RemoveBrackets(s, i) ==
  IF i > Len(s) THEN <<>>
  ELSE IF s[i] = "(" /\ IndexFrom(s, ")", i + 1) # 0
    THEN <<" ">> \o RemoveBrackets(s, IndexFrom(s, ")", i + 1) + 1)
  ELSE IF s[i] = "[" /\ IndexFrom(s, "]", i + 1) # 0
    THEN <<" ">> \o RemoveBrackets(s, IndexFrom(s, "]", i + 1) + 1)
  ELSE <<s[i]>> \o RemoveBrackets(s, i + 1)

\* Does the regular expression /\b<word>\.?\b/ match s at position i ?
ClauseAt(s, word, i) ==
  /\ i + Len(word) - 1 <= Len(s)
  /\ SubSeq(s, i, i + Len(word) - 1) = word
  /\ (i = 1 \/ ~IsWordChar(s[i - 1]))
  /\ (i + Len(word) > Len(s) \/ ~IsWordChar(s[i + Len(word)]))

\* .replace(/\b<word>\.?\b.*$/gi, ' '), for <word> = feat and ft.
RECURSIVE RemoveClause(_, _, _)
RemoveClause(s, word, i) ==
  IF i > Len(s) THEN <<>>
  ELSE IF ClauseAt(s, word, i) THEN <<" ">>
  ELSE <<s[i]>> \o RemoveClause(s, word, i + 1)

\* .replace(/[^a-z0-9]+/g, ' ')
RECURSIVE CollapseNonAlnum(_, _)
CollapseNonAlnum(s, i) ==
  IF i > Len(s) THEN <<>>
  ELSE IF s[i] \in LowerLetters \cup Digits
    THEN <<s[i]>> \o CollapseNonAlnum(s, i + 1)
  ELSE IF i > 1 /\ s[i - 1] \notin LowerLetters \cup Digits
    THEN CollapseNonAlnum(s, i + 1)
  ELSE <<" ">> \o CollapseNonAlnum(s, i + 1)

\* String.prototype.trim
RECURSIVE trim(_)
trim(s) ==
  IF s = <<>> THEN s
  ELSE IF Head(s) = " " THEN trim(Tail(s))
  ELSE IF s[Len(s)] = " " THEN trim(SubSeq(s, 1, Len(s) - 1))
  ELSE s

normalize(value) ==
  LET lowered == FlatMap(value, 1)
      stripped == SelectSeq(lowered, LAMBDA c : c \notin CombiningMarks)
      unbracketed == RemoveBrackets(stripped, 1)
      nofeat == RemoveClause(unbracketed, <<"f","e","a","t">>, 1)
      noft == RemoveClause(nofeat, <<"f","t">>, 1)
  IN trim(CollapseNonAlnum(noft, 1))

buildSongKey(artist, title) == normalize(artist) \o <<"|">> \o normalize(title)

\* Array.prototype.join(' ')
RECURSIVE joinSpace(_)
joinSpace(parts) ==
  IF parts = <<>> THEN <<>>
  ELSE IF Len(parts) = 1 THEN parts[1]
  ELSE parts[1] \o <<" ">> \o joinSpace(Tail(parts))

\* String.prototype.includes
includes(s, t) ==
  \E i \in 1..(Len(s) + 1) :
    /\ i + Len(t) - 1 <= Len(s)
    /\ SubSeq(s, i, i + Len(t) - 1) = t

(***************************************************************************)
(* The songs the source serves and the Spotify catalogue the model draws   *)
(* its inputs from.  S1 and S2 are the same song written differently, S3   *)
(* is a label that could not be split into artist and title.  T1 and T2    *)
(* are an album and a single edition of one song; T3 is a track whose name *)
(* is empty, as a playlist lists a track whose metadata is unavailable.    *)
(***************************************************************************)
S1 == [artist |-> <<"A","b">>, title |-> <<"H","a">>]
S2 == [artist |-> <<"A","B">>, title |-> <<"H","á"," ","(","L",")">>]
S3 == [artist |-> <<>>, title |-> <<"H","a">>]

Songs == {S1, S2, S3}

T1 == [id |-> "t1", uri |-> "spotify:track:t1", name |-> <<"H","a">>,
       artists |-> << <<"A","b">> >>, album_type |-> "album", popularity |-> 50]
T2 == [id |-> "t2", uri |-> "spotify:track:t2", name |-> <<"H","a"," ","[","L","]">>,
       artists |-> << <<"Á","b">> >>, album_type |-> "single",
       popularity |-> 60]
T3 == [id |-> "t3", uri |-> "spotify:track:t3", name |-> <<>>,
       artists |-> << <<"A","b">> >>, album_type |-> "single", popularity |-> 10]

Tracks == {T1, T2, T3}

NoTrack == [id |-> "null"]

trackWith(id, name, artists, albumType, popularity) ==
  [id |-> id, uri |-> "spotify:track:" \o id, name |-> name, artists |-> artists,
   album_type |-> albumType, popularity |-> popularity]

\* More of the catalogue, for the calls of chooseBestTrack alone: editions of
\* the song of S1 and S2 ("Ha" by "Ab") and other tracks, among them tracks
\* of an artist whose name has no letter or digit, a track without artists,
\* a popularity above the scale and two editions that score the same.
MoreTracks ==
  { trackWith("k4", <<"H","a">>, << <<"C","d">> >>, "album", 45),
    trackWith("k5", <<"H","a"," ","x">>, << <<"A","b">> >>, "single", 0),
    trackWith("k6", <<"H","a">>, << <<"C","d">> >>, "album", 44),
    trackWith("k7", <<"H","a">>, << <<"A","b">> >>, "compilation", 120),
    trackWith("k8", <<"H","a">>, << <<"!">> >>, "single", 30),
    trackWith("k9", <<"Z","z">>, << <<"C","d">> >>, "single", 0),
    trackWith("k10", <<"Z","z">>, << <<"C","d">> >>, "album", 0),
    trackWith("k11", <<"H","a"," ","x">>, << <<"!">>, <<"A","b","c">> >>, "album", 100),
    trackWith("k12", <<"H","a">>, <<>>, "album", 10),
    trackWith("k13", <<"H","a">>, << <<"C","d">> >>, "album", 45) }

Catalogue == Tracks \cup MoreTracks

\* What scrapeSongsFromSource can return for one window, when the source has
\* at most `left` more songs to serve.
ScrapeResults(left) == UNION { [1..n -> Songs] : n \in 0..left }

\* What searchTracks can return: distinct tracks, in any order.
SearchResults ==
  { c \in UNION { [1..n -> Tracks] : n \in 0..MaxCandidates } :
      \A i, j \in DOMAIN c : i # j => c[i] # c[j] }

songKeyOf == [s \in Songs |-> buildSongKey(s.artist, s.title)]

\* buildSongKey(track.artists.map((artist) => artist.name).join(' '), track.name)
trackKeyOf == [t \in Catalogue |-> buildSongKey(joinSpace(t.artists), t.name)]

(***************************************************************************)
(* cli: chooseBestTrack and findTrackForSong.  Scores are kept as          *)
(* fifteenths, so that popularity / 15 stays an integer.                   *)
(***************************************************************************)
Min(a, b) == IF a <= b THEN a ELSE b

titleScore(trackTitle, expectedTitle) ==
  IF trackTitle = expectedTitle THEN 120
  ELSE IF includes(trackTitle, expectedTitle) \/ includes(expectedTitle, trackTitle)
    THEN 75
  ELSE 0

artistScore(trackArtists, expectedArtist) ==
  IF expectedArtist # <<>>
     /\ \E i \in DOMAIN trackArtists :
          \/ trackArtists[i] = expectedArtist
          \/ includes(trackArtists[i], expectedArtist)
          \/ includes(expectedArtist, trackArtists[i])
  THEN 100
  ELSE 0

\* albumScore with a slip: a single is not penalised.
albumScoreNoPenalty(albumType) == IF albumType = "album" THEN 28 ELSE 0

albumScore(albumType) ==
  (IF albumType = "album" THEN 28 ELSE 0) + (IF albumType = "single" THEN 0 - 12 ELSE 0)

RECURSIVE normalizeAll(_)
normalizeAll(names) ==
  IF names = <<>> THEN <<>> ELSE <<normalize(Head(names))>> \o normalizeAll(Tail(names))

score15(song, track) ==
  LET expectedTitle == normalize(song.title)
      expectedArtist == normalize(song.artist)
      trackTitle == normalize(track.name)
      trackArtists == SelectSeq(normalizeAll(track.artists), LAMBDA a : Len(a) > 0)
  IN 15 * ( titleScore(trackTitle, expectedTitle)
          + artistScore(trackArtists, expectedArtist)
          + albumScore(track.album_type) )
     + Min(track.popularity, 100)

scoreOf == [s \in Songs |-> [t \in Catalogue |-> score15(s, t)]]

\* Lines 694-731: the candidates with their scores.
scoredOf(song, candidates) ==
  [i \in DOMAIN candidates |->
     [track |-> candidates[i], score |-> scoreOf[song][candidates[i]]]]

\* insertByScore with a slip: an element is put before the elements that
\* score the same, so that the sort reverses the order of equal scores.
RECURSIVE insertBeforeEqualScore(_, _, _)
insertBeforeEqualScore(sorted, c, i) ==
  IF i > Len(sorted) THEN Append(sorted, c)
  ELSE IF sorted[i].score <= c.score
    THEN SubSeq(sorted, 1, i - 1) \o <<c>> \o SubSeq(sorted, i, Len(sorted))
  ELSE insertBeforeEqualScore(sorted, c, i + 1)

\* Array.prototype.toSorted((a, b) => b.score - a.score): a stable sort,
\* by insertion after every element that does not score less.
RECURSIVE insertByScore(_, _, _)
insertByScore(sorted, c, i) ==
  IF i > Len(sorted) THEN Append(sorted, c)
  ELSE IF sorted[i].score < c.score
    THEN SubSeq(sorted, 1, i - 1) \o <<c>> \o SubSeq(sorted, i, Len(sorted))
  ELSE insertByScore(sorted, c, i + 1)

RECURSIVE toSortedByScore(_, _)
toSortedByScore(scored, n) ==
  IF n = 0 THEN <<>>
  ELSE insertByScore(toSortedByScore(scored, n - 1), scored[n], 1)

\* Array.prototype.find: index of the first album candidate, 0 when none.
RECURSIVE findAlbum(_, _)
findAlbum(sorted, i) ==
  IF i > Len(sorted) THEN 0
  ELSE IF sorted[i].track.album_type = "album" THEN i
  ELSE findAlbum(sorted, i + 1)

\* chooseBestTrack with a slip: the album edition is not preferred.
chooseTopTrack(song, candidates) ==
  toSortedByScore(scoredOf(song, candidates), Len(candidates))[1].track

chooseBestTrack(song, candidates) ==
  LET scored == scoredOf(song, candidates)
      sortedByScore == toSortedByScore(scored, Len(scored))
      best == sortedByScore[1]
      a == findAlbum(sortedByScore, 1)
  IN IF a # 0 /\ best.track.album_type = "single"
        /\ sortedByScore[a].score >= best.score - 15 * 12
     THEN sortedByScore[a].track
     ELSE best.track

\* findTrackForSong with a slip: a best candidate that scores nothing is
\* not returned.
findTrackForSongAboveZero(song, candidates) ==
  IF Len(candidates) = 0 THEN NoTrack
  ELSE IF scoreOf[song][chooseBestTrack(song, candidates)] <= 0 THEN NoTrack
  ELSE chooseBestTrack(song, candidates)

findTrackForSong(song, candidates) ==
  IF Len(candidates) = 0 THEN NoTrack ELSE chooseBestTrack(song, candidates)

(***************************************************************************)
(* cli/utils.ts: buildWindows                                              *)
(***************************************************************************)
\* buildWindowsFrom with a slip: the end of the last window is not clipped
\* to the end of the range.
RECURSIVE buildWindowsUnclipped(_, _, _)
buildWindowsUnclipped(from, timeTo, windowHours) ==
  IF from < timeTo
  THEN <<[from |-> from, to |-> from + windowHours]>>
       \o buildWindowsUnclipped(from + windowHours, timeTo, windowHours)
  ELSE <<>>

RECURSIVE buildWindowsFrom(_, _, _)
buildWindowsFrom(from, timeTo, windowHours) ==
  IF from < timeTo
  THEN <<[from |-> from, to |-> Min(from + windowHours, timeTo)]>>
       \o buildWindowsFrom(from + windowHours, timeTo, windowHours)
  ELSE <<>>

buildWindows(timeFrom, timeTo, windowHours) ==
  buildWindowsFrom(timeFrom, timeTo, windowHours)

\* `${window.from}-${window.to}`
windowKeyOf(window) == ToString(window.from) \o "-" \o ToString(window.to)

(***************************************************************************)
(* common/date.ts and odsluchane/utils.ts: dates and the Warsaw clock.     *)
(* A date is the DD-MM-YYYY string of the command line.                    *)
(***************************************************************************)
digitValue(c) == CHOOSE n \in 0..9 : ToString(n) = c

\* Number.parseInt(text, 10) on a string of digits.
RECURSIVE parseInt(_)
parseInt(text) ==
  IF Len(text) = 0 THEN 0
  ELSE 10 * parseInt(SubSeq(text, 1, Len(text) - 1)) + digitValue(text[Len(text)])

parseInputDate(date) ==
  [day |-> parseInt(SubSeq(date, 1, 2)),
   month |-> parseInt(SubSeq(date, 4, 5)),
   year |-> parseInt(SubSeq(date, 7, 10))]

dateKey(year, month, day) == year * 10000 + month * 100 + day

\* isWindowFullyInPastInWarsaw with a slip: the hour is not compared, so
\* that every window of today counts as past.
isWindowFullyInPastIgnoresHour(date, windowToHour, nowParts) ==
  LET targetDate == parseInputDate(date)
      todayKey == dateKey(nowParts.year, nowParts.month, nowParts.day)
      targetKey == dateKey(targetDate.year, targetDate.month, targetDate.day)
  IN targetKey <= todayKey

isWindowFullyInPastInWarsaw(date, windowToHour, nowParts) ==
  LET targetDate == parseInputDate(date)
      todayKey == dateKey(nowParts.year, nowParts.month, nowParts.day)
      targetKey == dateKey(targetDate.year, targetDate.month, targetDate.day)
  IN IF targetKey < todayKey THEN TRUE
     ELSE IF targetKey > todayKey THEN FALSE
     ELSE nowParts.hour * 60 + nowParts.minute >= windowToHour * 60

isWindowFullyInFutureInWarsaw(date, windowFromHour, nowParts) ==
  LET targetDate == parseInputDate(date)
      todayKey == dateKey(nowParts.year, nowParts.month, nowParts.day)
      targetKey == dateKey(targetDate.year, targetDate.month, targetDate.day)
  IN IF targetKey > todayKey THEN TRUE
     ELSE IF targetKey < todayKey THEN FALSE
     ELSE windowFromHour * 60 > nowParts.hour * 60 + nowParts.minute

(***************************************************************************)
(* The environment of the sync command: the Warsaw clock moves through     *)
(* ClockPoints (the day before the synced date, two moments of that day    *)
(* and the day after); the command line draws its options from the sets    *)
(* below (hours at the end of the day, where a window can end at 24).      *)
(***************************************************************************)
D1 == <<"2","4","-","0","2","-","2","0","2","6">>

Dates == {D1}

ClockPoints ==
  << [year |-> 2026, month |-> 2, day |-> 23, hour |-> 23, minute |-> 30],
     [year |-> 2026, month |-> 2, day |-> 24, hour |-> 22, minute |-> 30],
     [year |-> 2026, month |-> 2, day |-> 24, hour |-> 23, minute |-> 30],
     [year |-> 2026, month |-> 2, day |-> 25, hour |-> 0, minute |-> 30] >>

FromArgs == {22, 24}
ToArgs == {23, 24}
WindowArgs == {1, 2, 3}

StationId == "40"
PlaylistId == "pl"

InitialPlaylists == { <<>>, <<T1.uri>>, <<T3.uri>> }

(***************************************************************************)
(* cli: the persisted state (.cache/state.json) and the processed-window   *)
(* memory station -> date -> windowKey -> true.                            *)
(***************************************************************************)
EmptyMap == <<>>

Put(f, k, v) == [x \in DOMAIN f \cup {k} |-> IF x = k THEN v ELSE f[x]]

EmptyState == [stationPlaylists |-> EmptyMap, scrapedWindows |-> EmptyMap]

\* The file is absent, or holds nothing that JSON.parse accepts.
NoFile == [missing |-> TRUE]

\* What a saveState that throws leaves on disk: fs.writeFile truncates the
\* file when it opens it, so that a failure before the open leaves the file
\* as it was, and a failure after it leaves a file without its contents.
afterFailedSave(file) == {file, NoFile}

\* loadState: a missing or unparsable file gives the empty state.
loadState(file) == IF file = NoFile THEN EmptyState ELSE file

isWindowAlreadyProcessed(state, stationId, date, windowKey) ==
  /\ stationId \in DOMAIN state.scrapedWindows
  /\ date \in DOMAIN state.scrapedWindows[stationId]
  /\ windowKey \in DOMAIN state.scrapedWindows[stationId][date]
  /\ state.scrapedWindows[stationId][date][windowKey]

\* markWindowProcessed with a slip: the windows of the date are started
\* afresh, so that the earlier windows of the date are forgotten.
markWindowProcessedResetsDate(state, stationId, date, windowKey) ==
  LET byStation == state.scrapedWindows
      byDate == IF stationId \in DOMAIN byStation THEN byStation[stationId] ELSE EmptyMap
  IN [state EXCEPT !.scrapedWindows =
        Put(byStation, stationId, Put(byDate, date, Put(EmptyMap, windowKey, TRUE)))]

markWindowProcessed(state, stationId, date, windowKey) ==
  LET byStation == state.scrapedWindows
      byDate == IF stationId \in DOMAIN byStation THEN byStation[stationId] ELSE EmptyMap
      byKey == IF date \in DOMAIN byDate THEN byDate[date] ELSE EmptyMap
  IN [state EXCEPT !.scrapedWindows =
        Put(byStation, stationId, Put(byDate, date, Put(byKey, windowKey, TRUE)))]

\* The windows of a station and date that the memory holds.
entriesOf(state, stationId, date) ==
  IF stationId \in DOMAIN state.scrapedWindows
     /\ date \in DOMAIN state.scrapedWindows[stationId]
  THEN { k \in DOMAIN state.scrapedWindows[stationId][date] :
           state.scrapedWindows[stationId][date][k] }
  ELSE {}

(***************************************************************************)
(* spotify: the playlist index and the addition of tracks.                 *)
(***************************************************************************)
CHUNK_SIZE == 100

trackOfUri(uri) == CHOOSE t \in Catalogue : t.uri = uri

\* getPlaylistTrackIndex: the union over all items of all pages; an item
\* without id, name or artists is left out of both sets.
RECURSIVE getPlaylistTrackIndex(_, _)
getPlaylistTrackIndex(items, i) ==
  IF i > Len(items) THEN [trackIds |-> {}, songKeys |-> {}]
  ELSE LET track == trackOfUri(items[i])
           rest == getPlaylistTrackIndex(items, i + 1)
       IN IF track.id = "" \/ Len(track.name) = 0 \/ Len(track.artists) = 0
          THEN rest
          ELSE [trackIds |-> rest.trackIds \cup {track.id},
                songKeys |-> rest.songKeys \cup {trackKeyOf[track]}]

\* The items of a page: ?limit=50 in the first url of getPlaylistTrackIndex.
PAGE_LIMIT == 50

\* What Spotify answers to the request of the page at an offset: the items
\* of the page and the url of the next page (here its offset, -1 for null).
pageAt(items, offset) ==
  [items |-> SubSeq(items, offset + 1, Min(offset + PAGE_LIMIT, Len(items))),
   next |-> IF offset + PAGE_LIMIT < Len(items) THEN offset + PAGE_LIMIT ELSE 0 - 1]

\* Lines 164-182 of the client: the items of one page are added to the sets.
RECURSIVE addItems(_, _, _)
addItems(index, pageItems, i) ==
  IF i > Len(pageItems) THEN index
  ELSE LET track == trackOfUri(pageItems[i])
       IN IF track.id = "" \/ Len(track.name) = 0 \/ Len(track.artists) = 0
          THEN addItems(index, pageItems, i + 1)
          ELSE addItems([trackIds |-> index.trackIds \cup {track.id},
                         songKeys |-> index.songKeys \cup {trackKeyOf[track]}],
                        pageItems, i + 1)

\* followNext with a slip: only the first page is read.
followNextOnce(items, nextUrl, index) ==
  IF nextUrl < 0 THEN index ELSE addItems(index, pageAt(items, nextUrl).items, 1)

\* Lines 158-185 of the client: while (nextUrl) the page is requested, its
\* items are added and nextUrl becomes data.next.
RECURSIVE followNext(_, _, _)
followNext(items, nextUrl, index) ==
  IF nextUrl < 0 THEN index
  ELSE followNext(items, pageAt(items, nextUrl).next,
                  addItems(index, pageAt(items, nextUrl).items, 1))

\* Array.prototype.toReversed
toReversed(seq) == [i \in 1..Len(seq) |-> seq[Len(seq) + 1 - i]]

\* chunk(uris, size) of es-toolkit
RECURSIVE chunk(_, _)
chunk(uris, size) ==
  IF Len(uris) = 0 THEN <<>>
  ELSE IF Len(uris) <= size THEN <<uris>>
  ELSE <<SubSeq(uris, 1, size)>> \o chunk(SubSeq(uris, size + 1, Len(uris)), size)

\* The playlist after the first k requests of addTracksToPlaylist(uris,
\* {position: 0}): the chunks are sent last chunk first, each at the top.
RECURSIVE insertChunks(_, _, _)
insertChunks(items, chunks, k) ==
  IF k = 0 \/ chunks = <<>> THEN items
  ELSE insertChunks(Head(chunks) \o items, Tail(chunks), k - 1)

\* addTracksToPlaylist with a slip: the chunks are sent first chunk first.
addTracksToPlaylistFirstChunkFirst(items, uris, k) ==
  insertChunks(items, chunk(uris, CHUNK_SIZE), k)

addTracksToPlaylist(items, uris, k) ==
  insertChunks(items, toReversed(chunk(uris, CHUNK_SIZE)), k)

(***************************************************************************)
(* cli: runSyncCommand.  The state of one run is a record; every step of   *)
(* the command is a function on that record, so that the run and the run   *)
(* with the opposite --dry-run flag can be stepped on identical inputs.    *)
(***************************************************************************)
VARIABLES
  clock,      \* index of the present moment in ClockPoints
  disk,       \* the contents of .cache/state.json, or NoFile
  playlist,   \* the uris of the destination playlist, top first
  run,        \* the run of the sync command in progress (or the last one)
  twin,       \* the same run with the opposite --dry-run flag, same inputs
  io,         \* the external requests the run has made so far
  base,       \* the playlist and the memory as the run found them
  prev,       \* what the previous run was and how it ended
  runs,       \* the number of runs started
  runsLeft,   \* the number of runs still to start
  songsLeft,  \* the number of songs the source still has to serve
  http,       \* a call of fetchWithRetry
  batch,      \* a call of addTracksToPlaylist at position 0
  wire,       \* what the run awaits: a request or a pacing delay
  calc,       \* a call of one of the pure functions and what it returned
  boot,       \* the sync command before its first window, await by await
  auth        \* a call of waitForAuthorizationCode

vars == <<clock, disk, playlist, run, twin, io, base, prev, runs, runsLeft, songsLeft,
          http, batch, wire, calc, boot, auth>>

now == ClockPoints[clock]

ZeroStats ==
  [windowsPlanned |-> 0, windowsSkippedAlreadyDone |-> 0, windowsSkippedFuture |-> 0,
   windowsProcessed |-> 0, windowsNotMarkedNotInPast |-> 0, songsScraped |-> 0,
   songsDuplicateSkipped |-> 0, songsAlreadyInPlaylistSkipped |-> 0,
   songsMatched |-> 0, songsUnmatched |-> 0, tracksAdded |-> 0]

NoArgs ==
  [date |-> D1, from |-> 0, to |-> 0, window |-> 0, dryRun |-> FALSE, force |-> FALSE]

\* A run that has not started, or that an error has ended: only the options
\* and the position are kept.  Besides the variables of runSyncCommand the
\* record keeps, for the properties below: scrapedAt, the moment of the last
\* scrape; accumulated, the ids of all tracks pushed to urisToAdd during the
\* run; handledKeys, the keys of the songs the loop has already handled; and
\* straddled, whether a completed window had not ended yet.
BlankRun(pc, args) ==
  [pc |-> pc, args |-> args, state |-> EmptyState,
   playlistIndex |-> [trackIds |-> {}, songKeys |-> {}],
   stats |-> ZeroStats, windows |-> <<>>, wi |-> 1, songs |-> <<>>, si |-> 1,
   urisToAdd |-> <<>>, runSeenSongKeys |-> {}, scrapedAt |-> 0,
   accumulated |-> <<>>, handledKeys |-> {}, straddled |-> FALSE]

\* Lines 453-459, with a slip: an empty range of hours is let through.
validArgsAllowsEmptyRange(args) ==
  /\ ~(args.from < 0 \/ args.from > 23 \/ args.to < 1 \/ args.to > 24 \/ args.from > args.to)
  /\ ~(args.window < 1 \/ args.window > 2)

validArgs(args) ==
  /\ ~(args.from < 0 \/ args.from > 23 \/ args.to < 1 \/ args.to > 24 \/ args.from >= args.to)
  /\ ~(args.window < 1 \/ args.window > 2)

canCurrentUserWritePlaylist(isOwner, collaborative) == isOwner \/ collaborative

\* Lines 461-529: the state is loaded (and the --playlist mapping put into
\* it), the playlist index is built and the windows are planned.
beginRun(args, state, items) ==
  LET windows == buildWindows(args.from, args.to, args.window)
  IN [BlankRun("window", args) EXCEPT
        !.state = state,
        !.playlistIndex = getPlaylistTrackIndex(items, 1),
        !.windows = windows,
        !.stats = [ZeroStats EXCEPT !.windowsPlanned = Len(windows)]]

currentWindow(r) == r.windows[r.wi]

\* The loop moves on to the next window, or the run completes.
nextWindow(r) ==
  [r EXCEPT !.wi = @ + 1,
            !.pc = IF r.wi + 1 > Len(r.windows) THEN "done" ELSE "window"]

\* classify with a slip: --force also sets the comparison with the clock
\* aside.
classifyForceScrapesFuture(r, nowParts) ==
  IF ~r.args.force
     /\ isWindowFullyInFutureInWarsaw(r.args.date, currentWindow(r).from, nowParts)
    THEN "future"
  ELSE IF ~r.args.force
          /\ isWindowAlreadyProcessed(r.state, StationId, r.args.date,
                                      windowKeyOf(currentWindow(r)))
    THEN "skipped"
  ELSE "scrape"

\* classify with a slip: the memory is consulted when --force is given,
\* instead of when it is not.
classifyForceInverted(r, nowParts) ==
  IF isWindowFullyInFutureInWarsaw(r.args.date, currentWindow(r).from, nowParts)
    THEN "future"
  ELSE IF r.args.force
          /\ isWindowAlreadyProcessed(r.state, StationId, r.args.date,
                                      windowKeyOf(currentWindow(r)))
    THEN "skipped"
  ELSE "scrape"

\* classify with a slip: the window is not compared with the clock.
classifyNeverFuture(r, nowParts) ==
  IF ~r.args.force
     /\ isWindowAlreadyProcessed(r.state, StationId, r.args.date,
                                 windowKeyOf(currentWindow(r)))
    THEN "skipped"
  ELSE "scrape"

\* Lines 551-573: what the loop does with the window it examines.
classify(r, nowParts) ==
  IF isWindowFullyInFutureInWarsaw(r.args.date, currentWindow(r).from, nowParts)
    THEN "future"
  ELSE IF ~r.args.force
          /\ isWindowAlreadyProcessed(r.state, StationId, r.args.date,
                                      windowKeyOf(currentWindow(r)))
    THEN "skipped"
  ELSE "scrape"

\* skipWindow with a slip: a skipped window is also counted as processed.
skipWindowCountsProcessed(r, kind) ==
  nextWindow(
    IF kind = "future"
    THEN [r EXCEPT !.stats.windowsSkippedFuture = @ + 1,
                   !.stats.windowsProcessed = @ + 1]
    ELSE [r EXCEPT !.stats.windowsSkippedAlreadyDone = @ + 1,
                   !.stats.windowsProcessed = @ + 1])

skipWindow(r, kind) ==
  nextWindow(
    IF kind = "future"
    THEN [r EXCEPT !.stats.windowsSkippedFuture = @ + 1]
    ELSE [r EXCEPT !.stats.windowsSkippedAlreadyDone = @ + 1])

\* Lines 575-579: the songs of the window have been scraped.
takeSongs(r, songs, at) ==
  [r EXCEPT !.stats.songsScraped = @ + Len(songs),
            !.songs = songs, !.si = 1, !.urisToAdd = <<>>, !.scrapedAt = at,
            !.pc = IF Len(songs) = 0 THEN "finish" ELSE "songs"]

examineWindow(r, songs, at) ==
  IF classify(r, ClockPoints[at]) = "scrape"
  THEN takeSongs(r, songs, at)
  ELSE skipWindow(r, classify(r, ClockPoints[at]))

currentSong(r) == r.songs[r.si]

nextSong(r) ==
  [r EXCEPT !.si = @ + 1,
            !.pc = IF r.si + 1 > Len(r.songs) THEN "finish" ELSE "songs"]

\* needsSearch with a slip: the key set of the index is not consulted.
needsSearchIgnoresIndex(r) ==
  songKeyOf[currentSong(r)] \notin r.runSeenSongKeys

\* Lines 584-593: is the song searched for on Spotify ?
needsSearch(r) ==
  /\ songKeyOf[currentSong(r)] \notin r.runSeenSongKeys
  /\ songKeyOf[currentSong(r)] \notin r.playlistIndex.songKeys

\* Lines 585-586: the key was already seen in this run.
skipDuplicate(r) == [r EXCEPT !.stats.songsDuplicateSkipped = @ + 1]

\* Lines 590-592: the key is in the index.
skipKnownKey(r, songKey) ==
  [r EXCEPT !.runSeenSongKeys = @ \cup {songKey},
            !.stats.songsAlreadyInPlaylistSkipped = @ + 1]

\* skipUnmatched with a slip: the key is not remembered as seen.
skipUnmatchedForgetsKey(r, songKey) ==
  [r EXCEPT !.stats.songsUnmatched = @ + 1]

\* Lines 601-603: the search found no track.
skipUnmatched(r, songKey) ==
  [r EXCEPT !.runSeenSongKeys = @ \cup {songKey},
            !.stats.songsUnmatched = @ + 1]

\* skipKnownTrack with a slip: the scraped key is not put into the index.
skipKnownTrackForgetsSongKey(r, songKey, spotifyTrack) ==
  [r EXCEPT !.runSeenSongKeys = @ \cup {songKey},
            !.playlistIndex.songKeys = @ \cup {trackKeyOf[spotifyTrack]},
            !.stats.songsAlreadyInPlaylistSkipped = @ + 1]

\* Lines 612-616: the id of the chosen track is in the index.
skipKnownTrack(r, songKey, spotifyTrack) ==
  [r EXCEPT !.runSeenSongKeys = @ \cup {songKey},
            !.playlistIndex.songKeys = @ \cup {songKey, trackKeyOf[spotifyTrack]},
            !.stats.songsAlreadyInPlaylistSkipped = @ + 1]

\* acceptTrack with a slip: a dry run leaves the id set of the index alone.
acceptTrackDryKeepsIds(r, songKey, spotifyTrack) ==
  [r EXCEPT !.urisToAdd = Append(@, spotifyTrack.uri),
            !.accumulated = Append(@, spotifyTrack.id),
            !.runSeenSongKeys = @ \cup {songKey},
            !.playlistIndex.trackIds =
               IF r.args.dryRun THEN @ ELSE @ \cup {spotifyTrack.id},
            !.playlistIndex.songKeys = @ \cup {songKey, trackKeyOf[spotifyTrack]},
            !.stats.songsMatched = @ + 1]

\* Lines 619-624: the chosen track is accumulated for addition.
acceptTrack(r, songKey, spotifyTrack) ==
  [r EXCEPT !.urisToAdd = Append(@, spotifyTrack.uri),
            !.accumulated = Append(@, spotifyTrack.id),
            !.runSeenSongKeys = @ \cup {songKey},
            !.playlistIndex.trackIds = @ \cup {spotifyTrack.id},
            !.playlistIndex.songKeys = @ \cup {songKey, trackKeyOf[spotifyTrack]},
            !.stats.songsMatched = @ + 1]

\* Lines 582-625: one iteration of the loop over the songs of a window;
\* spotifyTrack is what findTrackForSong returned when it was called.
handleSong(r, spotifyTrack) ==
  LET songKey == songKeyOf[currentSong(r)]
      handled == [r EXCEPT !.handledKeys = @ \cup {songKey}]
  IN nextSong(
       IF songKey \in r.runSeenSongKeys THEN skipDuplicate(handled)
       ELSE IF songKey \in r.playlistIndex.songKeys THEN skipKnownKey(handled, songKey)
       ELSE IF spotifyTrack = NoTrack THEN skipUnmatched(handled, songKey)
       ELSE IF spotifyTrack.id \in r.playlistIndex.trackIds
         THEN skipKnownTrack(handled, songKey, spotifyTrack)
       ELSE acceptTrack(handled, songKey, spotifyTrack))

\* sendsTracks with a slip: --dry-run is not looked at.
sendsTracksEvenWhenDry(r) == Len(r.urisToAdd) > 0

\* Line 627: are the accumulated tracks sent to the playlist ?
sendsTracks(r) == ~r.args.dryRun /\ Len(r.urisToAdd) > 0

\* Line 632: is the window marked processed ?
marksWindow(r, nowParts) ==
  ~r.args.dryRun /\ isWindowFullyInPastInWarsaw(r.args.date, currentWindow(r).to, nowParts)

\* settleWindow with a slip: an addition is counted as one track, however
\* many tracks were sent.
settleWindowCountsRequests(r, nowParts) ==
  LET added == IF sendsTracks(r)
               THEN [r EXCEPT !.stats.tracksAdded = @ + 1]
               ELSE r
      inPast == isWindowFullyInPastInWarsaw(r.args.date, currentWindow(r).to, nowParts)
      seen == [added EXCEPT !.straddled = @ \/ ~inPast]
  IN IF marksWindow(r, nowParts)
       THEN [seen EXCEPT !.state = markWindowProcessed(r.state, StationId, r.args.date,
                                                        windowKeyOf(currentWindow(r)))]
     ELSE IF ~r.args.dryRun
       THEN [seen EXCEPT !.stats.windowsNotMarkedNotInPast = @ + 1]
     ELSE seen

\* Lines 627-637 up to the saving of the state.
settleWindow(r, nowParts) ==
  LET added == IF sendsTracks(r)
               THEN [r EXCEPT !.stats.tracksAdded = @ + Len(r.urisToAdd)]
               ELSE r
      inPast == isWindowFullyInPastInWarsaw(r.args.date, currentWindow(r).to, nowParts)
      seen == [added EXCEPT !.straddled = @ \/ ~inPast]
  IN IF marksWindow(r, nowParts)
       THEN [seen EXCEPT !.state = markWindowProcessed(r.state, StationId, r.args.date,
                                                        windowKeyOf(currentWindow(r)))]
     ELSE IF ~r.args.dryRun
       THEN [seen EXCEPT !.stats.windowsNotMarkedNotInPast = @ + 1]
     ELSE seen

\* Lines 627-650: the window is completed.
finishWindow(r, nowParts) ==
  nextWindow([settleWindow(r, nowParts) EXCEPT !.stats.windowsProcessed = @ + 1])

\* playlistAfterAdd with a slip: the tracks are sent in the order in which
\* they were scraped.
playlistAfterAddInScrapeOrder(r, items) ==
  addTracksToPlaylist(items, r.urisToAdd, Len(chunk(r.urisToAdd, CHUNK_SIZE)))

\* Lines 627-630: the playlist after addTracksToPlaylist(playlistId,
\* urisToAdd.toReversed(), {position: 0}) has made all its requests.
playlistAfterAdd(r, items) ==
  addTracksToPlaylist(items, toReversed(r.urisToAdd), Len(chunk(r.urisToAdd, CHUNK_SIZE)))

ZeroIo == [scrapes |-> 0, searches |-> 0, adds |-> 0, marks |-> 0]

\* What a later run remembers of the run before it: its hour range and window
\* size, and whether it completed with every planned window behind it
\* ("past"), and moreover was no dry run and skipped no window as future
\* ("committed").
summaryOf(r) ==
  [date |-> r.args.date, from |-> r.args.from, to |-> r.args.to, window |-> r.args.window,
   outcome |-> IF r.pc # "done" \/ r.straddled THEN "open"
               ELSE IF r.args.dryRun \/ r.stats.windowsSkippedFuture > 0 THEN "past"
               ELSE "committed"]

\* No Retry-After header.
NoHeader == [kind |-> "absent", text |-> <<>>, ahead |-> 0]

\* No call of fetchWithRetry is in progress.  Besides the variables of
\* fetchWithRetry (totalAttempts, attempt, nextDelayMs) and of the retry
\* helper (retryAttempts, the delay it awaits, the error it holds) the record
\* keeps, for the properties: requests, the number of fetch calls made; last,
\* what the last of them ended with; and slept, the delay awaited since.
NoCall ==
  [pc |-> "idle", options |-> [hasMaxRetries |-> FALSE, maxRetries |-> 0],
   totalAttempts |-> 0, attempt |-> 0, nextDelayMs |-> 0,
   retryAttempts |-> 0, delayMs |-> 0,
   requests |-> 0, slept |-> 0,
   last |-> [kind |-> "none", status |-> 0, header |-> NoHeader],
   result |-> [kind |-> "none", status |-> 0, header |-> NoHeader]]

\* No call of addTracksToPlaylist is in progress.
NoBatch == [pc |-> "idle", uris |-> <<>>, before |-> <<>>, items |-> <<>>, sent |-> 0]

\* The run awaits nothing.  sourceDelayMs and spotifyDelayMs are the
\* options of the run; inFlight counts the requests that were made and have
\* not ended; paused is the inter-window delay awaited since the last
\* scrape; reached is the response or error that the last request of the
\* run handed to runSyncCommand.
NoWire ==
  [at |-> "idle", sourceDelayMs |-> 0, spotifyDelayMs |-> 0, inFlight |-> 0,
   paused |-> 0, reached |-> [kind |-> "none", status |-> 0, header |-> NoHeader]]

\* No function has been called.
NoCalc == [fn |-> "none", args |-> <<>>, out |-> <<>>, done |-> FALSE]

\* The sync command is not in its steps before the first window.  Besides
\* the options as the command line gave them the record keeps, for the
\* properties, the list of what the command has done so far.
NoBoot ==
  [pc |-> "idle", failedAt |-> "", raw |-> <<>>, args |-> NoArgs, state |-> EmptyState,
   playlistArg |-> FALSE, isOwner |-> FALSE, collaborative |-> FALSE, did |-> <<>>]

\* A promise that is pending, and the promise of waitForAuthorizationCode
\* before the call.  Besides the variables of the function (settled, the
\* server, the timer, the callbacks handed to server.close and the promise
\* it returns) the record keeps, for the properties: first, what the first
\* event that called finish asked for; last, the last request and the
\* status it was answered with; and requests, the number of requests.
Pending == [state |-> "pending", value |-> ""]

NoAuth ==
  [pc |-> "idle", callbackPath |-> "", server |-> "none", timer |-> "none",
   settled |-> FALSE, errored |-> FALSE, onClose |-> <<>>, promise |-> Pending,
   first |-> Pending, last |-> [path |-> "", status |-> 0], requests |-> 0]

InitWith(nRuns, nSongs) ==
  /\ http = NoCall
  /\ batch = NoBatch
  /\ wire = NoWire
  /\ calc = NoCalc
  /\ boot = NoBoot
  /\ auth = NoAuth
  /\ clock = 1
  /\ disk = NoFile
  /\ playlist \in InitialPlaylists
  /\ run = BlankRun("idle", NoArgs)
  /\ twin = BlankRun("idle", NoArgs)
  /\ io = ZeroIo
  /\ base = [playlist |-> <<>>, state |-> EmptyState]
  /\ prev = summaryOf(BlankRun("idle", NoArgs))
  /\ runs = 0
  /\ runsLeft = nRuns
  /\ songsLeft = nSongs

\* One run of the command.
Init == InitWith(1, MaxSongs)

\* Runs of the command in sequence.
InitRerun == InitWith(MaxRuns, MaxRerunSongs)

\* Time passes.
Tick ==
  /\ clock < Len(ClockPoints)
  /\ run.pc # "songs"
  /\ clock' = clock + 1
  /\ UNCHANGED <<disk, playlist, run, twin, io, base, prev, runs, runsLeft, songsLeft>>
  /\ UNCHANGED <<http, batch, wire, calc, boot, auth>>

\* sync is started with options that the validation of lines 453-459 rejects.
StartInvalid ==
  /\ run.pc \in {"idle", "done", "failed"}
  /\ runsLeft > 0
  /\ \E date \in Dates, from \in FromArgs, to \in ToArgs, window \in WindowArgs,
        dryRun \in BOOLEAN, force \in BOOLEAN :
       LET args == [date |-> date, from |-> from, to |-> to, window |-> window,
                    dryRun |-> dryRun, force |-> force]
       IN /\ ~validArgs(args)
          /\ run' = BlankRun("failed", args)
          /\ twin' = BlankRun("failed", [args EXCEPT !.dryRun = ~dryRun])
          /\ prev' = summaryOf(run)
  /\ runs' = runs + 1
  /\ runsLeft' = runsLeft - 1
  /\ io' = ZeroIo
  /\ base' = [playlist |-> playlist, state |-> loadState(disk)]
  /\ UNCHANGED <<clock, disk, playlist, songsLeft>>
  /\ UNCHANGED <<http, batch, wire, calc, boot, auth>>

\* sync is started: lines 421-529.
StartRun ==
  /\ run.pc \in {"idle", "done", "failed"}
  /\ runsLeft > 0
  /\ \E date \in Dates, from \in FromArgs, to \in ToArgs, window \in WindowArgs,
        dryRun \in BOOLEAN, force \in BOOLEAN,
        playlistArg \in BOOLEAN, isOwner \in BOOLEAN :
       LET args == [date |-> date, from |-> from, to |-> to, window |-> window,
                    dryRun |-> dryRun, force |-> force]
           loaded == loadState(disk)
           state == IF playlistArg
                    THEN [loaded EXCEPT !.stationPlaylists = Put(@, StationId, PlaylistId)]
                    ELSE loaded
           mapped == StationId \in DOMAIN state.stationPlaylists
           writable == canCurrentUserWritePlaylist(isOwner, FALSE)
           start(a, w) == IF ~mapped \/ (~w /\ ~a.dryRun)
                          THEN BlankRun("failed", a)
                          ELSE beginRun(a, state, playlist)
       IN /\ validArgs(args)
          /\ disk' = IF playlistArg THEN state ELSE disk
          /\ io' = ZeroIo
          /\ run' = start(args, writable)
          /\ twin' = start([args EXCEPT !.dryRun = ~dryRun], TRUE)
          /\ base' = [playlist |-> playlist, state |-> loaded]
          /\ prev' = summaryOf(run)
  /\ runs' = runs + 1
  /\ runsLeft' = runsLeft - 1
  /\ UNCHANGED <<clock, playlist, songsLeft>>
  /\ UNCHANGED <<http, batch, wire, calc, boot, auth>>

\* The loop examines a window; when the window is neither in the future nor
\* already processed, the source is scraped and answers with songs.
ExamineWindow ==
  /\ run.pc = "window"
  /\ \E songs \in ScrapeResults(songsLeft) :
       /\ classify(run, now) # "scrape" => songs = <<>>
       /\ songsLeft' = songsLeft - Len(songs)
       /\ run' = examineWindow(run, songs, clock)
       /\ twin' = IF twin.pc = run.pc THEN examineWindow(twin, songs, clock) ELSE twin
  /\ io' = [io EXCEPT !.scrapes = @ + (IF classify(run, now) = "scrape" THEN 1 ELSE 0)]
  /\ UNCHANGED <<clock, disk, playlist, base, prev, runs, runsLeft>>
  /\ UNCHANGED <<http, batch, wire, calc, boot, auth>>

\* scrapeSongsFromSource throws.
ScrapeFails ==
  /\ run.pc = "window"
  /\ classify(run, now) = "scrape"
  /\ run' = BlankRun("failed", run.args)
  /\ io' = [io EXCEPT !.scrapes = @ + 1]
  /\ UNCHANGED <<clock, disk, playlist, twin, base, prev, runs, runsLeft, songsLeft>>
  /\ UNCHANGED <<http, batch, wire, calc, boot, auth>>

\* One song of the window is handled; when it has to be searched, Spotify
\* answers with candidates.
ProcessSong ==
  /\ run.pc = "songs"
  /\ \E candidates \in SearchResults :
       /\ ~needsSearch(run) => candidates = <<>>
       /\ run' = handleSong(run, findTrackForSong(currentSong(run), candidates))
       /\ twin' = IF twin.pc = run.pc
                  THEN handleSong(twin, findTrackForSong(currentSong(twin), candidates))
                  ELSE twin
  /\ io' = [io EXCEPT !.searches = @ + (IF needsSearch(run) THEN 1 ELSE 0)]
  /\ UNCHANGED <<clock, disk, playlist, base, prev, runs, runsLeft, songsLeft>>
  /\ UNCHANGED <<http, batch, wire, calc, boot, auth>>

\* searchTracks throws.
SearchFails ==
  /\ run.pc = "songs"
  /\ needsSearch(run)
  /\ run' = BlankRun("failed", run.args)
  /\ io' = [io EXCEPT !.searches = @ + 1]
  /\ UNCHANGED <<clock, disk, playlist, twin, base, prev, runs, runsLeft, songsLeft>>
  /\ UNCHANGED <<http, batch, wire, calc, boot, auth>>

\* Lines 627-650: the accumulated tracks are added, the window is marked
\* and the state is saved.
FinishWindow ==
  /\ run.pc = "finish"
  /\ run' = finishWindow(run, now)
  /\ twin' = IF twin.pc = run.pc THEN finishWindow(twin, now) ELSE twin
  /\ playlist' = IF sendsTracks(run) THEN playlistAfterAdd(run, playlist) ELSE playlist
  /\ disk' = IF marksWindow(run, now) THEN run'.state ELSE disk
  /\ io' = [io EXCEPT !.adds = @ + (IF sendsTracks(run)
                                     THEN Len(chunk(run.urisToAdd, CHUNK_SIZE)) ELSE 0),
                      !.marks = @ + (IF marksWindow(run, now) THEN 1 ELSE 0)]
  /\ UNCHANGED <<clock, base, prev, runs, runsLeft, songsLeft>>
  /\ UNCHANGED <<http, batch, wire, calc, boot, auth>>

\* AddFails with a slip: the error of addTracksToPlaylist is swallowed, so
\* that the window is completed as if its tracks had been added.
AddFailsButWindowIsCompleted ==
  /\ run.pc = "finish"
  /\ sendsTracks(run)
  /\ \E k \in 0..(Len(chunk(run.urisToAdd, CHUNK_SIZE)) - 1) :
       /\ playlist' = addTracksToPlaylist(playlist, toReversed(run.urisToAdd), k)
       /\ io' = [io EXCEPT !.adds = @ + k + 1,
                           !.marks = @ + (IF marksWindow(run, now) THEN 1 ELSE 0)]
  /\ run' = finishWindow(run, now)
  /\ disk' = IF marksWindow(run, now) THEN run'.state ELSE disk
  /\ UNCHANGED <<clock, twin, base, prev, runs, runsLeft, songsLeft>>
  /\ UNCHANGED <<http, batch, wire, calc, boot, auth>>

\* A request of addTracksToPlaylist fails after k requests went through.
AddFails ==
  /\ run.pc = "finish"
  /\ sendsTracks(run)
  /\ \E k \in 0..(Len(chunk(run.urisToAdd, CHUNK_SIZE)) - 1) :
       /\ playlist' = addTracksToPlaylist(playlist, toReversed(run.urisToAdd), k)
       /\ io' = [io EXCEPT !.adds = @ + k + 1]
  /\ run' = BlankRun("failed", run.args)
  /\ UNCHANGED <<clock, disk, twin, base, prev, runs, runsLeft, songsLeft>>
  /\ UNCHANGED <<http, batch, wire, calc, boot, auth>>

\* saveState throws after the window was marked in memory.
SaveFails ==
  /\ run.pc = "finish"
  /\ marksWindow(run, now)
  /\ disk' \in afterFailedSave(disk)
  /\ playlist' = IF sendsTracks(run) THEN playlistAfterAdd(run, playlist) ELSE playlist
  /\ io' = [io EXCEPT !.adds = @ + (IF sendsTracks(run)
                                     THEN Len(chunk(run.urisToAdd, CHUNK_SIZE)) ELSE 0),
                      !.marks = @ + 1]
  /\ run' = BlankRun("failed", run.args)
  /\ UNCHANGED <<clock, twin, base, prev, runs, runsLeft, songsLeft>>
  /\ UNCHANGED <<http, batch, wire, calc, boot, auth>>

Next ==
  \/ Tick
  \/ StartInvalid
  \/ StartRun
  \/ ExamineWindow
  \/ ScrapeFails
  \/ ProcessSong
  \/ SearchFails
  \/ FinishWindow
  \/ AddFails
  \/ SaveFails

Spec == Init /\ [][Next]_vars

SpecRerun == InitRerun /\ [][Next]_vars

\* No run of the sync command is in progress.
NoSync ==
  /\ clock = 1
  /\ disk = NoFile
  /\ playlist = <<>>
  /\ run = BlankRun("idle", NoArgs)
  /\ twin = BlankRun("idle", NoArgs)
  /\ io = ZeroIo
  /\ base = [playlist |-> <<>>, state |-> EmptyState]
  /\ prev = summaryOf(BlankRun("idle", NoArgs))
  /\ runs = 0
  /\ runsLeft = 0
  /\ songsLeft = 0

syncVars == <<clock, disk, playlist, run, twin, io, base, prev, runs, runsLeft, songsLeft>>

(***************************************************************************)
(* spotify: one call addTracksToPlaylist(playlistId, urisToAdd.toReversed(),*)
(* {position: 0}), request by request.  The accumulated tracks are numbered *)
(* 1..n in the order in which they were scraped; the playlist holds 0 or   *)
(* nothing before the call.                                                *)
(***************************************************************************)
BatchPlaylists == { <<>>, <<0>> }

InitAdd ==
  /\ NoSync
  /\ http = NoCall
  /\ wire = NoWire
  /\ calc = NoCalc
  /\ boot = NoBoot
  /\ auth = NoAuth
  /\ \E n \in 1..MaxBatch, items \in BatchPlaylists :
       batch = [pc |-> "sending", uris |-> [i \in 1..n |-> i], before |-> items,
                items |-> items, sent |-> 0]

\* The requests that the call makes when none fails.
requestsOf(b) == Len(chunk(toReversed(b.uris), CHUNK_SIZE))

\* Lines 199-211 of the client: the next chunk is posted at position 0.
SendChunk ==
  /\ batch.pc = "sending"
  /\ batch.sent < requestsOf(batch)
  /\ batch' = [batch EXCEPT
                 !.sent = @ + 1,
                 !.items = addTracksToPlaylist(batch.before, toReversed(batch.uris),
                                               batch.sent + 1)]
  /\ UNCHANGED <<syncVars, http, wire, calc, boot, auth>>

\* apiRequest throws for the next chunk.
ChunkFails ==
  /\ batch.pc = "sending"
  /\ batch.sent < requestsOf(batch)
  /\ batch' = [batch EXCEPT !.pc = "failed"]
  /\ UNCHANGED <<syncVars, http, wire, calc, boot, auth>>

\* The loop over the chunks ends.
AddReturns ==
  /\ batch.pc = "sending"
  /\ batch.sent = requestsOf(batch)
  /\ batch' = [batch EXCEPT !.pc = "done"]
  /\ UNCHANGED <<syncVars, http, wire, calc, boot, auth>>

NextAdd ==
  \/ SendChunk
  \/ ChunkFails
  \/ AddReturns

SpecAdd == InitAdd /\ [][NextAdd]_vars

(***************************************************************************)
(* common/fetch.ts: one call of fetchWithRetry.  The server answers each   *)
(* request with a status (a 429 may carry a Retry-After header) or the     *)
(* request fails; the retry helper of es-toolkit runs the attempts: it     *)
(* calls the function at most `retries` times, rethrows an error that      *)
(* shouldRetry refuses, and awaits delay() before the next call.           *)
(***************************************************************************)
MIN_RETRY_AFTER_MS == 1500
MAX_RETRY_AFTER_MS == 10000
BACKOFF_STEP_MS == 1500
DEFAULT_RETRY_ATTEMPTS == 4

Max(a, b) == IF a > b THEN a ELSE b

\* The options.maxRetries that callers pass: none (the sources, the token
\* requests), 2 (apiRequest), and values around the smallest budget.
FetchOptions ==
  { [hasMaxRetries |-> FALSE, maxRetries |-> 0] } \cup
  { [hasMaxRetries |-> TRUE, maxRetries |-> n] : n \in 0..MaxRetriesArg }

Statuses == {200, 404, 429, 500, 503}

\* Retry-After headers: absent, a text ("" , seconds, or neither seconds
\* nor a date), or an HTTP date that lies `ahead` ms after Date.now().
RetryAfterHeaders ==
  { NoHeader } \cup
  { [kind |-> "text", text |-> t, ahead |-> 0] :
      t \in { <<>>, <<"0">>, <<"1">>, <<"5">>, <<"1","0">>, <<"1","1">>, <<"a","b","c">> } } \cup
  { [kind |-> "date", text |-> <<"W","e","d">>, ahead |-> a] : a \in {-5000, 2500, 10000, 10001} }

Errors == {"network", "timeout"}

\* Number(text) is a number: the texts of the model that are all digits.
isNumber(text) == Len(text) > 0 /\ \A i \in DOMAIN text : text[i] \in Digits

getRetryAfterMilliseconds(header) ==
  IF header.kind = "absent" \/ Len(header.text) = 0 THEN MIN_RETRY_AFTER_MS
  ELSE IF isNumber(header.text) THEN Max(parseInt(header.text) * 1000, MIN_RETRY_AFTER_MS)
  ELSE IF header.kind # "date" THEN MIN_RETRY_AFTER_MS
  ELSE Max(header.ahead, MIN_RETRY_AFTER_MS)

\* getBackoffDelayMilliseconds with a slip: the attempt number is not used.
getBackoffDelayFlat(attempt) == Max(BACKOFF_STEP_MS, MIN_RETRY_AFTER_MS)

getBackoffDelayMilliseconds(attempt) == Max(attempt * BACKOFF_STEP_MS, MIN_RETRY_AFTER_MS)

\* totalAttemptsOf with a slip: maxRetries counts the retries after the
\* first attempt.
totalAttemptsCountsRetries(options) ==
  1 + Max(1, IF options.hasMaxRetries THEN options.maxRetries ELSE DEFAULT_RETRY_ATTEMPTS)

\* Lines 83-85: totalAttempts.
totalAttemptsOf(options) ==
  Max(1, IF options.hasMaxRetries THEN options.maxRetries ELSE DEFAULT_RETRY_ATTEMPTS)

\* isLastAttempt with a slip: the attempt after the last one is taken for
\* the last.
isLastAttemptLate(h) == h.attempt >= h.totalAttempts

\* Lines 91-93: isLastAttempt, for the attempt that is about to be made.
isLastAttempt(h) == h.attempt >= h.totalAttempts - 1

\* tooLongToWait with a slip: a wait of MAX_RETRY_AFTER_MS is refused too.
tooLongToWaitOrEqual(retryAfterMs) == retryAfterMs >= MAX_RETRY_AFTER_MS

\* Line 112: the wait the server asks for is not accepted.
tooLongToWait(retryAfterMs) == retryAfterMs > MAX_RETRY_AFTER_MS

\* The function given to retry returns: retry returns the response.
returns(h, response) == [h EXCEPT !.pc = "returned", !.result = response]

\* The function given to retry throws: retry rethrows what shouldRetry
\* refuses, and otherwise awaits delay(), which hands over nextDelayMs and
\* sets it to 0.
throws(h, error) ==
  IF error # "RetryableFetchError"
  THEN [h EXCEPT !.pc = "thrown",
                 !.result = [kind |-> error, status |-> 0, header |-> NoHeader]]
  ELSE [h EXCEPT !.pc = "delay", !.delayMs = h.nextDelayMs, !.nextDelayMs = 0]

\* Lines 90-93: the attempt is counted and the request is made.
requested(h, outcome) ==
  [h EXCEPT !.attempt = @ + 1, !.requests = @ + 1, !.last = outcome, !.slept = 0]

\* Lines 110-128: fetch has resolved with a response.
onResponse(h, status, header) ==
  LET response == [kind |-> "response", status |-> status, header |-> header]
      made == requested(h, response)
  IN IF status = 429 /\ ~isLastAttempt(h)
       THEN IF tooLongToWait(getRetryAfterMilliseconds(header))
              THEN returns(made, response)
            ELSE throws([made EXCEPT !.nextDelayMs = getRetryAfterMilliseconds(header)],
                        "RetryableFetchError")
     ELSE IF status >= 500 /\ ~isLastAttempt(h)
       THEN throws([made EXCEPT !.nextDelayMs = getBackoffDelayMilliseconds(h.attempt + 1)],
                   "RetryableFetchError")
     ELSE returns(made, response)

\* onError with a slip: the error of the last attempt is wrapped as well.
onErrorAlwaysWrapped(h, error) ==
  LET made == requested(h, [kind |-> error, status |-> 0, header |-> NoHeader])
  IN throws([made EXCEPT !.nextDelayMs = getBackoffDelayMilliseconds(h.attempt + 1)],
            "RetryableFetchError")

\* Lines 129-140: fetch has rejected (network failure, timeout).
onError(h, error) ==
  LET made == requested(h, [kind |-> error, status |-> 0, header |-> NoHeader])
  IN IF isLastAttempt(h)
       THEN throws(made, error)
     ELSE throws([made EXCEPT !.nextDelayMs = getBackoffDelayMilliseconds(h.attempt + 1)],
                 "RetryableFetchError")

\* The delay of the retry helper has elapsed: the loop calls the function
\* again, unless it has called it `retries` (totalAttempts) times.
afterDelay(h) ==
  LET looped == [h EXCEPT !.retryAttempts = @ + 1, !.slept = h.delayMs, !.delayMs = 0]
  IN IF looped.retryAttempts < h.totalAttempts
       THEN [looped EXCEPT !.pc = "request"]
     ELSE [looped EXCEPT !.pc = "thrown",
                         !.result = [kind |-> "RetryableFetchError", status |-> 0,
                                     header |-> NoHeader]]

InitFetch ==
  /\ NoSync
  /\ batch = NoBatch
  /\ http = NoCall
  /\ wire = NoWire
  /\ calc = NoCalc
  /\ boot = NoBoot
  /\ auth = NoAuth

\* fetchWithRetry is called.
CallFetch ==
  /\ http.pc = "idle"
  /\ \E options \in FetchOptions :
       http' = [http EXCEPT !.pc = "request", !.options = options,
                            !.totalAttempts = totalAttemptsOf(options)]
  /\ UNCHANGED <<syncVars, batch, wire, calc, boot, auth>>

\* The server answers the request.
ServerResponds ==
  /\ http.pc = "request"
  /\ \E status \in Statuses, header \in RetryAfterHeaders :
       /\ status # 429 => header = NoHeader
       /\ http' = onResponse(http, status, header)
  /\ UNCHANGED <<syncVars, batch, wire, calc, boot, auth>>

\* The request fails or times out.
RequestFails ==
  /\ http.pc = "request"
  /\ \E error \in Errors : http' = onError(http, error)
  /\ UNCHANGED <<syncVars, batch, wire, calc, boot, auth>>

\* The delay before the next attempt elapses.
DelayElapses ==
  /\ http.pc = "delay"
  /\ http' = afterDelay(http)
  /\ UNCHANGED <<syncVars, batch, wire, calc, boot, auth>>

NextFetch ==
  \/ CallFetch
  \/ ServerResponds
  \/ RequestFails
  \/ DelayElapses

SpecFetch == InitFetch /\ [][NextFetch]_vars

\* Every request ends (AbortSignal.timeout) and every delay elapses.
SpecFetchLive == InitFetch /\ [][NextFetch]_vars /\ WF_vars(NextFetch)

(***************************************************************************)
(* cli: one run of the sync command, await by await.  Every request of a   *)
(* window is a call of fetchWithRetry, made with the options of its        *)
(* caller, and the run goes on when the call has returned or thrown; the   *)
(* steps before the first window (StartRun) are taken at once.             *)
(***************************************************************************)
DEFAULT_SOURCE_DELAY_MS == 2500
DEFAULT_SPOTIFY_DELAY_MS == 120

\* --source-delay-ms and --spotify-delay-ms: no pacing, or the defaults.
DelayArgs ==
  { [source |-> 0, spotify |-> 0],
    [source |-> DEFAULT_SOURCE_DELAY_MS, spotify |-> DEFAULT_SPOTIFY_DELAY_MS] }

InitSteps ==
  /\ http = NoCall
  /\ batch = NoBatch
  /\ calc = NoCalc
  /\ boot = NoBoot
  /\ auth = NoAuth
  /\ \E d \in DelayArgs :
       wire = [NoWire EXCEPT !.sourceDelayMs = d.source, !.spotifyDelayMs = d.spotify]
  /\ clock \in DOMAIN ClockPoints
  /\ disk = NoFile
  /\ playlist = <<>>
  /\ run = BlankRun("idle", NoArgs)
  /\ twin = BlankRun("idle", NoArgs)
  /\ io = ZeroIo
  /\ base = [playlist |-> <<>>, state |-> EmptyState]
  /\ prev = summaryOf(BlankRun("idle", NoArgs))
  /\ runs = 0
  /\ runsLeft = 1
  /\ songsLeft = MaxSongs

\* okOf with a slip: a 404 is taken for an answer without content.
okOrNotFound(result) ==
  result.kind = "response" /\ (result.status = 404 \/ (result.status >= 200 /\ result.status <= 299))

\* Response.ok of what a call of fetchWithRetry ended with.
okOf(result) ==
  result.kind = "response" /\ result.status >= 200 /\ result.status <= 299

\* The Retry-After headers that the servers of a run send with a 429: none,
\* or 11 seconds.
RunHeaders ==
  { h \in RetryAfterHeaders : h.kind = "absent" \/ h.text = <<"1","1">> }

\* scrapeSongsFromSource passes no options to fetchWithRetry, apiRequest
\* passes maxRetries 2.
callOf(what) ==
  LET options == IF what = "scrape" THEN [hasMaxRetries |-> FALSE, maxRetries |-> 0]
                 ELSE [hasMaxRetries |-> TRUE, maxRetries |-> 2]
  IN [NoCall EXCEPT !.pc = "request", !.options = options,
                    !.totalAttempts = totalAttemptsOf(options)]

\* awaits with a slip: the request is made and the run goes on without
\* awaiting it.
doesNotAwait(w, what) == [w EXCEPT !.inFlight = @ + 1]

\* `await` of a call that makes its first request.
awaits(w, what) == [w EXCEPT !.at = what, !.inFlight = @ + 1]

\* The call has ended: the run goes on with what it returned or threw.
resumes(w, result) ==
  [w EXCEPT !.at = "idle", !.reached = [kind |-> result.kind, status |-> result.status,
                                         header |-> NoHeader]]

\* paces with a slip: the inter-window delay is left out.
pacesNever(w) == [w EXCEPT !.at = "idle"]

\* Lines 648-650: the delay after a window.
paces(w) == [w EXCEPT !.at = IF w.sourceDelayMs > 0 THEN "sourceDelay" ELSE "idle"]

\* Lines 542-577: the loop examines a window and skips it, or calls
\* scrapeSongsFromSource.
BeginWindow ==
  /\ run.pc = "window"
  /\ wire.at = "idle"
  /\ IF classify(run, now) = "scrape"
     THEN /\ wire' = [awaits(wire, "scrape") EXCEPT !.paused = 0]
          /\ http' = callOf("scrape")
          /\ io' = [io EXCEPT !.scrapes = @ + 1]
          /\ run' = run
     ELSE /\ run' = skipWindow(run, classify(run, now))
          /\ UNCHANGED <<wire, http, io>>
  /\ UNCHANGED <<clock, disk, playlist, twin, base, prev, runs, runsLeft, songsLeft,
                 batch, calc, boot, auth>>

\* The request in flight is answered, or fails.
RequestEnds ==
  /\ http.pc = "request"
  /\ wire.inFlight > 0
  /\ \/ \E status \in Statuses, header \in RunHeaders :
          /\ status # 429 => header = NoHeader
          /\ http' = onResponse(http, status, header)
     \/ \E error \in Errors : http' = onError(http, error)
  /\ wire' = [wire EXCEPT !.inFlight = @ - 1]
  /\ UNCHANGED <<syncVars, batch, calc, boot, auth>>

\* The delay of the retry helper elapses and the next request is made, if
\* one is left.
RetryDelayElapses ==
  /\ http.pc = "delay"
  /\ http' = afterDelay(http)
  /\ wire' = [wire EXCEPT !.inFlight = @ + (IF http'.pc = "request" THEN 1 ELSE 0)]
  /\ UNCHANGED <<syncVars, batch, calc, boot, auth>>

\* scrapeSongsFromSource returns the songs of the page, or throws: the
\* error of fetchWithRetry, or its own for a response that is not ok.
ScrapeSettles ==
  /\ wire.at = "scrape"
  /\ http.pc \in {"returned", "thrown"}
  /\ http' = NoCall
  /\ wire' = resumes(wire, http.result)
  /\ IF okOf(http.result)
     THEN \E songs \in ScrapeResults(songsLeft) :
            /\ run' = takeSongs(run, songs, clock)
            /\ songsLeft' = songsLeft - Len(songs)
     ELSE /\ run' = BlankRun("failed", run.args)
          /\ songsLeft' = songsLeft
  /\ UNCHANGED <<clock, disk, playlist, twin, io, base, prev, runs, runsLeft, batch, calc, boot, auth>>

\* Lines 582-599: the next song is skipped, or it is searched for, after
\* the delay between two songs when there is one.
BeginSong ==
  /\ run.pc = "songs"
  /\ wire.at = "idle"
  /\ IF ~needsSearch(run)
     THEN /\ run' = handleSong(run, NoTrack)
          /\ UNCHANGED <<wire, http, io>>
     ELSE IF wire.spotifyDelayMs > 0 /\ run.si - 1 > 0
     THEN /\ wire' = [wire EXCEPT !.at = "spotifyDelay"]
          /\ UNCHANGED <<run, http, io>>
     ELSE /\ wire' = awaits(wire, "search")
          /\ http' = callOf("search")
          /\ io' = [io EXCEPT !.searches = @ + 1]
          /\ run' = run
  /\ UNCHANGED <<clock, disk, playlist, twin, base, prev, runs, runsLeft, songsLeft,
                 batch, calc, boot, auth>>

\* Lines 594-599: the delay between two songs has elapsed.
SpotifyDelayElapses ==
  /\ wire.at = "spotifyDelay"
  /\ wire' = awaits(wire, "search")
  /\ http' = callOf("search")
  /\ io' = [io EXCEPT !.searches = @ + 1]
  /\ UNCHANGED <<clock, disk, playlist, run, twin, base, prev, runs, runsLeft, songsLeft,
                 batch, calc, boot, auth>>

\* searchTracks returns candidates, or apiRequest throws.
SearchSettles ==
  /\ wire.at = "search"
  /\ http.pc \in {"returned", "thrown"}
  /\ http' = NoCall
  /\ wire' = resumes(wire, http.result)
  /\ IF okOf(http.result)
     THEN \E candidates \in SearchResults :
            run' = handleSong(run, findTrackForSong(currentSong(run), candidates))
     ELSE run' = BlankRun("failed", run.args)
  /\ UNCHANGED <<clock, disk, playlist, twin, io, base, prev, runs, runsLeft, songsLeft,
                 batch, calc, boot, auth>>

\* Lines 627-629: addTracksToPlaylist is called (one request: at most
\* CHUNK_SIZE tracks are accumulated here).
BeginAdd ==
  /\ run.pc = "finish"
  /\ wire.at = "idle"
  /\ sendsTracks(run)
  /\ wire' = awaits(wire, "add")
  /\ http' = callOf("add")
  /\ io' = [io EXCEPT !.adds = @ + 1]
  /\ UNCHANGED <<clock, disk, playlist, run, twin, base, prev, runs, runsLeft, songsLeft,
                 batch, calc, boot, auth>>

\* addTracksToPlaylist returns, or apiRequest throws.
AddSettles ==
  /\ wire.at = "add"
  /\ http.pc \in {"returned", "thrown"}
  /\ http' = NoCall
  /\ IF okOf(http.result)
     THEN /\ wire' = [resumes(wire, http.result) EXCEPT !.at = "added"]
          /\ playlist' = playlistAfterAdd(run, playlist)
          /\ run' = run
     ELSE /\ wire' = resumes(wire, http.result)
          /\ playlist' = playlist
          /\ run' = BlankRun("failed", run.args)
  /\ UNCHANGED <<clock, disk, twin, io, base, prev, runs, runsLeft, songsLeft, batch, calc, boot, auth>>

\* Lines 632-650: the window is marked and saveState is called, or the
\* window is completed without a mark.
MarkWindow ==
  /\ run.pc = "finish"
  /\ wire.at = "added" \/ (wire.at = "idle" /\ ~sendsTracks(run))
  /\ IF marksWindow(run, now)
     THEN /\ wire' = [wire EXCEPT !.at = "save"]
          /\ io' = [io EXCEPT !.marks = @ + 1]
          /\ run' = run
     ELSE /\ wire' = paces(wire)
          /\ io' = io
          /\ run' = finishWindow(run, now)
  /\ UNCHANGED <<clock, disk, playlist, twin, base, prev, runs, runsLeft, songsLeft,
                 http, batch, calc, boot, auth>>

\* saveState returns, or throws.
SaveSettles ==
  /\ wire.at = "save"
  /\ \/ /\ run' = finishWindow(run, now)
        /\ disk' = run'.state
        /\ wire' = paces(wire)
     \/ /\ run' = BlankRun("failed", run.args)
        /\ disk' \in afterFailedSave(disk)
        /\ wire' = [wire EXCEPT !.at = "idle"]
  /\ UNCHANGED <<clock, playlist, twin, io, base, prev, runs, runsLeft, songsLeft,
                 http, batch, calc, boot, auth>>

\* Lines 648-650: the delay after the window has elapsed.
SourceDelayElapses ==
  /\ wire.at = "sourceDelay"
  /\ wire' = [wire EXCEPT !.at = "idle", !.paused = @ + wire.sourceDelayMs]
  /\ UNCHANGED <<syncVars, http, batch, calc, boot, auth>>

NextSteps ==
  \/ StartRun
  \/ BeginWindow
  \/ RequestEnds
  \/ RetryDelayElapses
  \/ ScrapeSettles
  \/ BeginSong
  \/ SpotifyDelayElapses
  \/ SearchSettles
  \/ BeginAdd
  \/ AddSettles
  \/ MarkWindow
  \/ SaveSettles
  \/ SourceDelayElapses

SpecSteps == InitSteps /\ [][NextSteps]_vars

(***************************************************************************)
(* The pure functions, each called alone on an input that its callers can  *)
(* pass.                                                                   *)
(***************************************************************************)
\* buildWindows is called by runSyncCommand after the validation of lines
\* 453-459: 0 <= from <= 23, 1 <= to <= 24, from < to, window 1 or 2.
WindowCalls ==
  { c \in { [fn |-> "buildWindows", args |-> [from |-> f, to |-> t, window |-> w],
             out |-> <<>>, done |-> FALSE] : f \in 0..23, t \in 1..24, w \in 1..2 } :
      validArgs(c.args) }

\* findTrackForSong is called by runSyncCommand for a scraped song; what
\* searchTracks returns is a list of distinct tracks of the catalogue.
TrackCalls ==
  { [fn |-> "findTrackForSong", args |-> [song |-> s, candidates |-> c],
     out |-> <<>>, done |-> FALSE] :
      s \in Songs,
      c \in { l \in UNION { [1..n -> Catalogue] : n \in 0..MaxCandidates } :
                \A i, j \in DOMAIN l : i # j => l[i] # l[j] } }

\* One spelling of a string from another: in capitals, with acute accents
\* (precomposed), with a stroke through the o, with a parenthetical or
\* bracketed suffix, or with a trailing feat or ft clause.
Respellings ==
  {"same", "capitals", "acute", "stroke", "paren", "bracket", "feat", "ft", "FT"}

respell(s, how) ==
  LET capital(c) == IF \E i \in DOMAIN LowerCase : LowerCase[i] = c
                    THEN UpperCase[CHOOSE i \in DOMAIN LowerCase : LowerCase[i] = c]
                    ELSE c
      acute(c) == CASE c = "a" -> "á" [] c = "e" -> "é" [] c = "E" -> "É" [] OTHER -> c
      stroke(c) == CASE c = "o" -> "ø" [] c = "O" -> "Ø" [] OTHER -> c
  IN CASE how = "capitals" -> [i \in DOMAIN s |-> capital(s[i])]
       [] how = "acute" -> [i \in DOMAIN s |-> acute(s[i])]
       [] how = "stroke" -> [i \in DOMAIN s |-> stroke(s[i])]
       [] how = "paren" -> s \o <<" ","(","L","i","v","e",")">>
       [] how = "bracket" -> s \o <<" ","[","R","e","m","i","x","]">>
       [] how = "feat" -> s \o <<" ","f","e","a","t","."," ","J","a","y">>
       [] how = "ft" -> s \o <<" ","f","t"," ","J","a","y">>
       [] how = "FT" -> s \o <<" ","F","T","."," ","J","a","y">>
       [] OTHER -> s

\* buildSongKey is called on a scraped artist and title, and on another
\* spelling of the two.
KeyCalls ==
  { [fn |-> "buildSongKey",
     args |-> [artist |-> a, title |-> t, how |-> <<h1, h2>>,
               otherArtist |-> respell(a, h1), otherTitle |-> respell(t, h2)],
     out |-> <<>>, done |-> FALSE] :
      a \in { <<"B","e","y","o","n","c","e">>, <<"M","o">> },
      t \in { <<"H","a","l","o">>, <<"H","a">> },
      h1 \in Respellings, h2 \in Respellings }

\* getPlaylistTrackIndex is called on a playlist of up to MaxItems items:
\* one item at any position is a track with id, name and artist, the items
\* around it are all the same track, which may lack a name or its artists.
IndexCalls ==
  { [fn |-> "getPlaylistTrackIndex", args |-> [items |-> <<>>, at |-> 0],
     out |-> <<>>, done |-> FALSE] } \cup
  UNION { { [fn |-> "getPlaylistTrackIndex",
             args |-> [items |-> [i \in 1..n |-> IF i = at THEN T1.uri ELSE filler],
                       at |-> at],
             out |-> <<>>, done |-> FALSE] :
              at \in 1..n, filler \in {T3.uri, "spotify:track:k12"} } :
          n \in 1..MaxItems }

InitCalls ==
  /\ NoSync
  /\ http = NoCall
  /\ batch = NoBatch
  /\ wire = NoWire
  /\ \/ calc \in WindowCalls
     \/ calc \in TrackCalls
     \/ calc \in KeyCalls
  /\ boot = NoBoot
  /\ auth = NoAuth

CallBuildWindows ==
  /\ calc.fn = "buildWindows"
  /\ ~calc.done
  /\ calc' = [calc EXCEPT
                !.out = buildWindows(calc.args.from, calc.args.to, calc.args.window),
                !.done = TRUE]
  /\ UNCHANGED <<syncVars, http, batch, wire, boot, auth>>

\* Lines 668-688; scored is the array of lines 694-731, kept beside the
\* track that is returned.
CallFindTrackForSong ==
  /\ calc.fn = "findTrackForSong"
  /\ ~calc.done
  /\ calc' = [calc EXCEPT
                !.out = [track |-> findTrackForSong(calc.args.song, calc.args.candidates),
                         scored |-> scoredOf(calc.args.song, calc.args.candidates),
                         ranked |-> toSortedByScore(
                                      scoredOf(calc.args.song, calc.args.candidates),
                                      Len(calc.args.candidates))],
                !.done = TRUE]
  /\ UNCHANGED <<syncVars, http, batch, wire, boot, auth>>

\* buildSongKey, for the two spellings.
CallBuildSongKey ==
  /\ calc.fn = "buildSongKey"
  /\ ~calc.done
  /\ calc' = [calc EXCEPT
                !.out = [key |-> buildSongKey(calc.args.artist, calc.args.title),
                         otherKey |-> buildSongKey(calc.args.otherArtist,
                                                   calc.args.otherTitle)],
                !.done = TRUE]
  /\ UNCHANGED <<syncVars, http, batch, wire, boot, auth>>

\* getPlaylistTrackIndex, from the first url (offset 0) and empty sets.
CallGetPlaylistTrackIndex ==
  /\ calc.fn = "getPlaylistTrackIndex"
  /\ ~calc.done
  /\ calc' = [calc EXCEPT
                !.out = followNext(calc.args.items, 0, [trackIds |-> {}, songKeys |-> {}]),
                !.done = TRUE]
  /\ UNCHANGED <<syncVars, http, batch, wire, boot, auth>>

NextCalls ==
  \/ CallBuildWindows
  \/ CallFindTrackForSong
  \/ CallBuildSongKey

SpecCalls == InitCalls /\ [][NextCalls]_vars

InitIndex ==
  /\ NoSync
  /\ http = NoCall
  /\ batch = NoBatch
  /\ wire = NoWire
  /\ calc \in IndexCalls
  /\ boot = NoBoot
  /\ auth = NoAuth

NextIndex == CallGetPlaylistTrackIndex

\* getPlaylistTrackIndex called alone.
SpecIndex == InitIndex /\ [][NextIndex]_vars

(***************************************************************************)
(* cli: the sync command from its start to its first window, await by      *)
(* await (lines 421-529), followed by the loop over the windows.           *)
(***************************************************************************)
DEFAULT_TIME_TO == 24
DEFAULT_WINDOW_HOURS == 2

\* An option of the command line: absent, given without a value (parseArgs
\* then holds `true`), or given with a text.
NoOption == [kind |-> "absent", text |-> <<>>]

FlagOption == [kind |-> "flag", text |-> <<>>]

TextOption(text) == [kind |-> "text", text |-> text]

\* --from, --to and --window as the command line gives them.  (--from is
\* always given here: its default, 0, plans twelve windows or more.)
FromOptions ==
  { TextOption(<<"2","2">>), TextOption(<<" ","2","2">>), TextOption(<<"2","4">>),
    TextOption(<<"-","1">>), TextOption(<<"2","x">>), FlagOption }

ToOptions ==
  { NoOption, TextOption(<<"2","3">>), TextOption(<<"2","2">>), TextOption(<<"2","5">>),
    TextOption(<<"0">>) }

WindowOptions ==
  { NoOption, TextOption(<<"1">>), TextOption(<<"3">>), TextOption(<<"0">>),
    TextOption(<<"1",".","5">>) }

\* /^-?\d+$/
isIntegerText(value) ==
  LET digits == IF Len(value) > 0 /\ value[1] = "-" THEN Tail(value) ELSE value
  IN Len(digits) > 0 /\ \A i \in DOMAIN digits : digits[i] \in Digits

\* readOptionalStringArg and parseIntegerString: the integer, or an error.
\* (Every integer of at most four characters is a safe integer.)
parseIntegerString(option, default) ==
  LET value == trim(option.text)
  IN IF option.kind = "absent" THEN [ok |-> TRUE, value |-> default]
     ELSE IF option.kind = "flag" \/ ~isIntegerText(value) THEN [ok |-> FALSE, value |-> 0]
     ELSE IF value[1] = "-" THEN [ok |-> TRUE, value |-> 0 - parseInt(Tail(value))]
     ELSE [ok |-> TRUE, value |-> parseInt(value)]

\* Lines 491-498, with a slip: --dry-run is not looked at.
refusesPlaylistEvenWhenDry(args, isOwner, collaborative) ==
  ~canCurrentUserWritePlaylist(isOwner, collaborative)

\* Lines 491-498: is the command refused because the playlist cannot be
\* written ?
refusesPlaylist(args, isOwner, collaborative) ==
  ~canCurrentUserWritePlaylist(isOwner, collaborative) /\ ~args.dryRun

\* The command throws at a step.
fails(b, step) == [b EXCEPT !.pc = "failed", !.failedAt = step]

\* The command has done something that the properties look at.
does(b, what) == [b EXCEPT !.did = Append(@, what)]

InitBegin ==
  /\ http = NoCall
  /\ batch = NoBatch
  /\ wire = NoWire
  /\ calc = NoCalc
  /\ boot = NoBoot
  /\ auth = NoAuth
  /\ clock \in DOMAIN ClockPoints
  /\ disk = NoFile
  /\ playlist \in InitialPlaylists
  /\ run = BlankRun("idle", NoArgs)
  /\ twin = BlankRun("idle", NoArgs)
  /\ io = ZeroIo
  /\ base = [playlist |-> <<>>, state |-> EmptyState]
  /\ prev = summaryOf(BlankRun("idle", NoArgs))
  /\ runs = 0
  /\ runsLeft = 1
  /\ songsLeft = MaxSongs

\* sync is started with the options of the command line.
BeginSync ==
  /\ boot.pc = "idle"
  /\ runsLeft > 0
  /\ \E from \in FromOptions, to \in ToOptions, window \in WindowOptions, date \in Dates,
        dryRun \in BOOLEAN, force \in BOOLEAN, playlistArg \in BOOLEAN :
       boot' = [NoBoot EXCEPT
                  !.pc = "station",
                  !.raw = [from |-> from, to |-> to, window |-> window],
                  !.args = [NoArgs EXCEPT !.date = date, !.dryRun = dryRun, !.force = force],
                  !.playlistArg = playlistArg]
  /\ runs' = runs + 1
  /\ runsLeft' = runsLeft - 1
  /\ io' = ZeroIo
  /\ base' = [playlist |-> playlist, state |-> loadState(disk)]
  /\ UNCHANGED <<clock, disk, playlist, run, twin, prev, songsLeft>>
  /\ UNCHANGED <<http, batch, wire, calc, auth>>

\* Line 422, resolveStationForSync with --station: the label of the station
\* is looked up in the cached catalogue of stations or, when there is no
\* cache, in the catalogue requested from the source; an error is
\* swallowed.
ResolveStation ==
  /\ boot.pc = "station"
  /\ \E cached \in BOOLEAN :
       boot' = [(IF cached THEN boot ELSE does(boot, "fetchStationsFromOdsluchaneSource"))
                  EXCEPT !.pc = "options"]
  /\ UNCHANGED <<syncVars, http, batch, wire, calc, auth>>

\* Lines 423-459: the date and the integers are parsed and the hours and
\* the window size are validated.
ParseOptions ==
  /\ boot.pc = "options"
  /\ LET timeFrom == parseIntegerString(boot.raw.from, 0)
         timeTo == parseIntegerString(boot.raw.to, DEFAULT_TIME_TO)
         windowHours == parseIntegerString(boot.raw.window, DEFAULT_WINDOW_HOURS)
         args == [boot.args EXCEPT !.from = timeFrom.value, !.to = timeTo.value,
                                   !.window = windowHours.value]
     IN IF timeFrom.ok /\ timeTo.ok /\ windowHours.ok /\ validArgs(args)
        THEN /\ boot' = [boot EXCEPT !.pc = "load", !.args = args, !.raw = <<>>]
             /\ run' = run
        ELSE /\ boot' = fails(boot, "options")
             /\ run' = BlankRun("failed", boot.args)
  /\ UNCHANGED <<clock, disk, playlist, twin, io, base, prev, runs, runsLeft, songsLeft>>
  /\ UNCHANGED <<http, batch, wire, calc, auth>>

\* Lines 461-476: the state is loaded; with --playlist the mapping is put
\* into it, and without a mapping the command throws.
LoadState ==
  /\ boot.pc = "load"
  /\ LET loaded == loadState(disk)
         state == IF boot.playlistArg
                  THEN [loaded EXCEPT !.stationPlaylists = Put(@, StationId, PlaylistId)]
                  ELSE loaded
         after == [does(boot, "loadState") EXCEPT !.state = state]
     IN IF boot.playlistArg
        THEN /\ boot' = [after EXCEPT !.pc = "save"]
             /\ run' = run
        ELSE IF StationId \in DOMAIN state.stationPlaylists
        THEN /\ boot' = [after EXCEPT !.pc = "user"]
             /\ run' = run
        ELSE /\ boot' = fails(after, "mapping")
             /\ run' = BlankRun("failed", boot.args)
  /\ UNCHANGED <<clock, disk, playlist, twin, io, base, prev, runs, runsLeft, songsLeft>>
  /\ UNCHANGED <<http, batch, wire, calc, auth>>

\* Lines 463-466: the state with the mapping is saved, or saveState throws.
SaveMapping ==
  /\ boot.pc = "save"
  /\ \/ /\ disk' = boot.state
        /\ boot' = [does(boot, "saveState") EXCEPT !.pc = "user"]
        /\ run' = run
     \/ /\ disk' \in afterFailedSave(disk)
        /\ boot' = fails(does(boot, "saveState"), "saveState")
        /\ run' = BlankRun("failed", boot.args)
  /\ UNCHANGED <<clock, playlist, twin, io, base, prev, runs, runsLeft, songsLeft>>
  /\ UNCHANGED <<http, batch, wire, calc, auth>>

\* Line 484: the account is requested from Spotify.
GetCurrentUser ==
  /\ boot.pc = "user"
  /\ \/ /\ boot' = [does(boot, "getCurrentUser") EXCEPT !.pc = "meta"]
        /\ run' = run
     \/ /\ boot' = fails(does(boot, "getCurrentUser"), "getCurrentUser")
        /\ run' = BlankRun("failed", boot.args)
  /\ UNCHANGED <<clock, disk, playlist, twin, io, base, prev, runs, runsLeft, songsLeft>>
  /\ UNCHANGED <<http, batch, wire, calc, auth>>

\* Lines 489-503: the playlist is requested from Spotify, and the command
\* throws when it cannot write it and is no dry run.
GetPlaylistMeta ==
  /\ boot.pc = "meta"
  /\ \/ \E isOwner \in BOOLEAN, collaborative \in BOOLEAN :
          LET after == [does(boot, "getPlaylistMeta") EXCEPT
                          !.isOwner = isOwner, !.collaborative = collaborative]
          IN IF refusesPlaylist(boot.args, isOwner, collaborative)
             THEN /\ boot' = fails(after, "writable")
                  /\ run' = BlankRun("failed", boot.args)
             ELSE /\ boot' = [after EXCEPT !.pc = "index"]
                  /\ run' = run
     \/ /\ boot' = fails(does(boot, "getPlaylistMeta"), "getPlaylistMeta")
        /\ run' = BlankRun("failed", boot.args)
  /\ UNCHANGED <<clock, disk, playlist, twin, io, base, prev, runs, runsLeft, songsLeft>>
  /\ UNCHANGED <<http, batch, wire, calc, auth>>

\* Lines 507-529: the index of the playlist is built and the windows are
\* planned; the loop over the windows follows.
LoadIndex ==
  /\ boot.pc = "index"
  /\ \/ /\ boot' = [does(does(boot, "getPlaylistTrackIndex"), "buildWindows")
                      EXCEPT !.pc = "loop"]
        /\ run' = beginRun(boot.args, boot.state, playlist)
     \/ /\ boot' = fails(does(boot, "getPlaylistTrackIndex"), "getPlaylistTrackIndex")
        /\ run' = BlankRun("failed", boot.args)
  /\ UNCHANGED <<clock, disk, playlist, twin, io, base, prev, runs, runsLeft, songsLeft>>
  /\ UNCHANGED <<http, batch, wire, calc, auth>>

NextBegin ==
  \/ BeginSync
  \/ ResolveStation
  \/ ParseOptions
  \/ LoadState
  \/ SaveMapping
  \/ GetCurrentUser
  \/ GetPlaylistMeta
  \/ LoadIndex
  \/ ExamineWindow
  \/ ScrapeFails
  \/ ProcessSong
  \/ SearchFails
  \/ FinishWindow
  \/ AddFails
  \/ SaveFails

\* One run of the command from its first line.
SpecBegin == InitBegin /\ [][NextBegin]_vars

(***************************************************************************)
(* cli: waitForAuthorizationCode.  A local server listens for the callback *)
(* of the authorization; the promise is settled by the first of: a         *)
(* callback request, an error of the server, the timeout.                  *)
(***************************************************************************)
CallbackPaths == {"/callback", "/"}

\* A query parameter as URLSearchParams.get returns it: null when the
\* parameter is absent, else its value, which may be empty.
Absent == [given |-> FALSE, value |-> ""]

Given(value) == [given |-> TRUE, value |-> value]

\* `if (value)` for what URLSearchParams.get returned.
truthy(param) == param.given /\ param.value # ""

\* The request targets that reach the listener (those that new URL parses):
\* a path, and the parameters error and code.
Targets ==
  { [path |-> p, error |-> e, code |-> c] :
      p \in CallbackPaths \cup {"/favicon.ico"},
      e \in {Absent, Given(""), Given("access_denied")},
      c \in {Absent, Given(""), Given("c1"), Given("c2")} }

resolved(value) == [state |-> "resolved", value |-> value]

rejected(value) == [state |-> "rejected", value |-> value]

\* resolve and reject of a promise: only the first call has an effect.
settle(promise, outcome) == IF promise.state = "pending" THEN outcome ELSE promise

RECURSIVE settleAll(_, _, _)
settleAll(promise, outcomes, i) ==
  IF i > Len(outcomes) THEN promise
  ELSE settleAll(settle(promise, outcomes[i]), outcomes, i + 1)

\* handleOAuthCallbackRequest: the status of the response, and the callback
\* that is called (onCode, onError) with its argument.
handleOAuthCallbackRequest(callbackPath, target) ==
  IF target.path # callbackPath
    THEN [status |-> 404, calls |-> "none", outcome |-> Pending]
  ELSE IF truthy(target.error)
    THEN [status |-> 400, calls |-> "onError",
          outcome |-> rejected("Spotify authorization failed: " \o target.error.value)]
  ELSE IF ~truthy(target.code)
    THEN [status |-> 400, calls |-> "onError",
          outcome |-> rejected("Missing code parameter")]
  ELSE [status |-> 200, calls |-> "onCode", outcome |-> resolved(target.code.value)]

\* finish with a slip: `settled` is not looked at.
finishAgain(a, outcome, closes) ==
  IF closes
  THEN [a EXCEPT !.settled = TRUE, !.server = "closing", !.onClose = Append(@, outcome)]
  ELSE [a EXCEPT !.settled = TRUE, !.promise = settle(@, outcome)]

\* finish(fn): fn is run unless the wait is settled.  fn is either
\* server.close(() => settle), which settles the promise when the server
\* has closed, or the settling itself (the error of the server).
finish(a, outcome, closes) ==
  IF a.settled THEN a
  ELSE IF closes
    THEN [a EXCEPT !.settled = TRUE, !.server = "closing", !.onClose = Append(@, outcome)]
  ELSE [a EXCEPT !.settled = TRUE, !.promise = settle(@, outcome)]

\* What the properties remember of an event that calls finish.
noted(a, outcome) ==
  [a EXCEPT !.first = IF @.state = "pending" THEN outcome ELSE @]

InitAuth ==
  /\ NoSync
  /\ http = NoCall
  /\ batch = NoBatch
  /\ wire = NoWire
  /\ calc = NoCalc
  /\ boot = NoBoot
  /\ auth = NoAuth

authOnly == <<syncVars, http, batch, wire, calc, boot>>

\* runAuthCommand calls waitForAuthorizationCode: the server is created and
\* told to listen.
CallWaitForAuthorizationCode ==
  /\ auth.pc = "idle"
  /\ \E path \in CallbackPaths :
       auth' = [NoAuth EXCEPT !.pc = "called", !.callbackPath = path, !.server = "starting"]
  /\ UNCHANGED authOnly

\* The callback of server.listen: the server listens and the timer is set.
ServerListens ==
  /\ auth.server = "starting"
  /\ auth' = [auth EXCEPT !.server = "listening", !.timer = "armed"]
  /\ UNCHANGED authOnly

\* The first 'error' event of the server (server.once): it cannot listen,
\* or it fails while it serves.
ServerError ==
  /\ auth.server \in {"starting", "listening", "closing"}
  /\ ~auth.errored
  /\ LET outcome == rejected("server error")
         after == finish(noted(auth, outcome), outcome, FALSE)
     IN auth' = [after EXCEPT !.errored = TRUE,
                              !.server = IF auth.server = "starting" THEN "down" ELSE @]
  /\ UNCHANGED authOnly

\* A request reaches the listener: on a new connection while the server
\* listens, or on a connection that is still open while it closes.
CallbackRequest ==
  /\ auth.server \in {"listening", "closing"}
  /\ auth.requests < MaxRequests
  /\ \E target \in Targets :
       LET handled == handleOAuthCallbackRequest(auth.callbackPath, target)
           after == IF handled.calls = "none" THEN auth
                    ELSE finish(noted(auth, handled.outcome), handled.outcome, TRUE)
       IN auth' = [after EXCEPT !.requests = @ + 1,
                                !.last = [path |-> target.path, status |-> handled.status]]
  /\ UNCHANGED authOnly

\* The timer set by the callback of server.listen fires.
TimerFires ==
  /\ auth.timer = "armed"
  /\ LET outcome == rejected("Authorization timed out")
     IN auth' = [finish(noted(auth, outcome), outcome, TRUE) EXCEPT !.timer = "fired"]
  /\ UNCHANGED authOnly

\* The server has closed: 'close' clears the timer and the callbacks handed
\* to server.close are called.
ServerCloses ==
  /\ auth.server = "closing"
  /\ auth' = [auth EXCEPT !.server = "closed",
                          !.timer = IF @ = "armed" THEN "cleared" ELSE @,
                          !.onClose = <<>>,
                          !.promise = settleAll(@, auth.onClose, 1)]
  /\ UNCHANGED authOnly

NextAuth ==
  \/ CallWaitForAuthorizationCode
  \/ ServerListens
  \/ ServerError
  \/ CallbackRequest
  \/ TimerFires
  \/ ServerCloses

\* The server comes to listen unless it fails, the timer fires unless it
\* is cleared, and a server that closes has closed when the connections
\* left have ended.
SpecAuth ==
  /\ InitAuth
  /\ [][NextAuth]_vars
  /\ WF_vars(ServerListens)
  /\ WF_vars(TimerFires)
  /\ WF_vars(ServerCloses)

(***************************************************************************)
(* Properties.                                                             *)
(***************************************************************************)
occurrences(seq, x) == Cardinality({ i \in DOMAIN seq : seq[i] = x })

\* C1: the playlist never receives a track that it already contained when
\* the index of the run was built, nor one that the run has already added:
\* a track whose number of occurrences in the playlist has grown was absent
\* before the run and is now there once.
C1_NeverReceivesKnownTrack ==
  run.pc # "idle" =>
    \A t \in Tracks :
      occurrences(playlist, t.uri) > occurrences(base.playlist, t.uri) =>
        /\ occurrences(base.playlist, t.uri) = 0
        /\ occurrences(playlist, t.uri) = 1

\* C2: a song whose normalized key was already scraped earlier in the run is
\* skipped: no search is issued for it, nothing is accumulated for addition,
\* and it is counted as a duplicate, whatever became of the first occurrence.
C2_LaterOccurrenceSkipped ==
  [][ (run.pc = "songs" /\ songKeyOf[currentSong(run)] \in run.handledKeys) =>
        /\ io'.searches = io.searches
        /\ run'.pc # "failed"
        /\ run'.accumulated = run.accumulated
        /\ run'.urisToAdd = run.urisToAdd
        /\ run'.playlistIndex = run.playlistIndex
        /\ run'.stats.songsDuplicateSkipped = run.stats.songsDuplicateSkipped + 1
    ]_vars

\* C2 witness: in the second window of a run, the second occurrence of a key
\* was skipped after a first occurrence that had found no match.
C2_Witness ==
  /\ run.stats.songsDuplicateSkipped = 1
  /\ run.stats.songsUnmatched = 1
  /\ run.stats.songsScraped = 2
  /\ run.wi = 2
  /\ run.pc = "finish"

\* C3: a track is never accumulated for addition when its id, or the key
\* built from its own artists and title, is in the index at that moment.
C3_NothingIndexedIsAccumulated ==
  [][ (run.pc = "songs" /\ run'.accumulated # run.accumulated) =>
        LET id == run'.accumulated[Len(run'.accumulated)]
            track == CHOOSE t \in Tracks : t.id = id
        IN /\ id \notin run.playlistIndex.trackIds
           /\ trackKeyOf[track] \notin run.playlistIndex.songKeys
    ]_vars

\* Has the run the hour range and window size of the run before it ?
sameRangeAsBefore ==
  /\ prev.date = run.args.date
  /\ prev.from = run.args.from
  /\ prev.to = run.args.to
  /\ prev.window = run.args.window

noWindowProcessed ==
  /\ io.scrapes = 0
  /\ run.stats.windowsProcessed = 0
  /\ run.pc = "done" => run.stats.windowsSkippedAlreadyDone = run.stats.windowsPlanned

\* C4 as stated: after a run that completed and left no window straddling
\* now, a second non-forced run of the same range processes no window and
\* counts every planned window as already done.
C4_RerunProcessesNothing_AsStated ==
  (/\ runs >= 2
   /\ run.pc # "idle"
   /\ ~run.args.force
   /\ sameRangeAsBefore
   /\ prev.outcome \in {"past", "committed"}) => noWindowProcessed

\* C4 amended: the same, when moreover the first run was no dry run and
\* skipped no window as future.
C4_RerunProcessesNothing ==
  (/\ runs >= 2
   /\ run.pc # "idle"
   /\ ~run.args.force
   /\ sameRangeAsBefore
   /\ prev.outcome = "committed") => noWindowProcessed

\* C4 witness: the second run of a range of two windows has completed and
\* has skipped both.
C4_Witness ==
  /\ runs = 2
  /\ run.pc = "done"
  /\ ~run.args.force
  /\ sameRangeAsBefore
  /\ prev.outcome = "committed"
  /\ run.stats.windowsPlanned = 2
  /\ run.stats.windowsSkippedAlreadyDone = 2

\* The windows over the hours of the model.
HourWindows ==
  { [from |-> f, to |-> t] : f \in {22, 23}, t \in {23, 24} } \ {[from |-> 23, to |-> 23]}

overlap(v, w) == v.from < w.to /\ w.from < v.to

scrapesNow == run.pc = "window" /\ io'.scrapes = io.scrapes + 1

\* C5 as stated: a non-forced run issues no scrape request that covers an
\* hour of a window recorded in the memory for the station and date.
C5_NoRescrapeOfAnyHour_AsStated ==
  [][ (scrapesNow /\ ~run.args.force) =>
        \A w \in HourWindows :
          windowKeyOf(w) \in entriesOf(run.state, StationId, run.args.date)
            => ~overlap(w, currentWindow(run))
    ]_vars

\* C5 amended: a non-forced run issues no scrape request for a window that
\* is recorded in the memory for the station and date with the same from
\* and to hours.
C5_NoRescrapeOfSameWindow ==
  [][ (scrapesNow /\ ~run.args.force) =>
        /\ windowKeyOf(currentWindow(run))
             \notin entriesOf(run.state, StationId, run.args.date)
        /\ windowKeyOf(currentWindow(run))
             \notin entriesOf(loadState(disk), StationId, run.args.date)
    ]_vars

\* C5 witness: a later non-forced run has skipped a recorded window and
\* has scraped another one.
C5_Witness ==
  /\ runs = 2
  /\ ~run.args.force
  /\ run.stats.windowsSkippedAlreadyDone = 1
  /\ io.scrapes = 1

\* Is the end of the window still ahead of the moment nowParts ?
endStillAhead(date, toHour, nowParts) ==
  LET d == parseInputDate(date)
  IN \/ d.year > nowParts.year
     \/ d.year = nowParts.year /\ d.month > nowParts.month
     \/ d.year = nowParts.year /\ d.month = nowParts.month /\ d.day > nowParts.day
     \/ /\ d.year = nowParts.year /\ d.month = nowParts.month /\ d.day = nowParts.day
        /\ toHour * 60 > nowParts.hour * 60 + nowParts.minute

marksNow ==
  /\ run.pc = "finish"
  /\ \/ io'.marks > io.marks
     \/ disk' # disk
     \/ run'.pc # "failed" /\ run'.state # run.state

\* C6: a window is not marked processed, in memory or in the saved state,
\* while its end is still ahead of the clock at the moment of marking.
C6_NeverMarkedBeforeItsEnd ==
  [][ marksNow => ~endStillAhead(run.args.date, currentWindow(run).to, now) ]_vars

\* C6 witness: a run that is no dry run has scraped a window with songs in
\* it and has completed it without marking it, the window ending at 24.
C6_Witness ==
  /\ ~run.args.dryRun
  /\ run.pc = "done"
  /\ run.stats.songsScraped > 0
  /\ run.stats.windowsNotMarkedNotInPast > 0
  /\ run.args.to = 24
  /\ io.marks = 0

\* C7: whenever a window is marked processed, it was scraped at or after
\* its end.
C7_MarkedOnlyIfScrapedAfterEnd ==
  [][ marksNow =>
        ~endStillAhead(run.args.date, currentWindow(run).to, ClockPoints[run.scrapedAt])
    ]_vars

Counters == DOMAIN ZeroStats

\* C9 as stated: at the end of a dry run every counter has the value it has
\* at the end of the run that is no dry run, on the same inputs.
C9_DryRunSameStats_AsStated ==
  (run.pc = "done" /\ twin.pc = "done") =>
    \A c \in Counters : run.stats[c] = twin.stats[c]

\* C9 amended: every counter but tracksAdded and windowsNotMarkedNotInPast
\* has the same value at the end of both runs; these two stay 0 in the dry
\* run.
C9_DryRunSameStats ==
  (run.pc = "done" /\ twin.pc = "done") =>
    /\ \A c \in Counters \ {"tracksAdded", "windowsNotMarkedNotInPast"} :
         run.stats[c] = twin.stats[c]
    /\ run.args.dryRun =>
         run.stats.tracksAdded = 0 /\ run.stats.windowsNotMarkedNotInPast = 0

\* C9 witness: a dry run has completed with two songs matched, where the run
\* that is no dry run has added tracks and has left a window unmarked.
C9_Witness ==
  /\ run.args.dryRun
  /\ run.pc = "done"
  /\ twin.pc = "done"
  /\ run.stats.songsMatched = 2
  /\ twin.stats.tracksAdded = 2
  /\ twin.stats.windowsNotMarkedNotInPast > 0

\* C10: the state file is not written during a dry run.
C10_DryRunNeverWritesState ==
  (run.args.dryRun /\ run.pc # "idle") => loadState(disk) = base.state

\* The station/date/window entries that a state holds with the value true.
memoryEntries(state) ==
  UNION { UNION { { <<st, d, k>> : k \in { w \in DOMAIN state.scrapedWindows[st][d] :
                                             state.scrapedWindows[st][d][w] } }
                  : d \in DOMAIN state.scrapedWindows[st] }
          : st \in DOMAIN state.scrapedWindows }

\* C11: when a run has ended, completed or aborted, every entry that the
\* persisted memory held before the run is still in the persisted memory.
C11_PersistedMemoryOnlyGrows ==
  run.pc \in {"done", "failed"} =>
    memoryEntries(base.state) \subseteq memoryEntries(loadState(disk))

trackOfId(id) == CHOOSE t \in Tracks : t.id = id

urisOf(ids) == [i \in 1..Len(ids) |-> trackOfId(ids[i]).uri]

\* C13: the planned windows follow each other in ascending hour order and
\* are handled one at a time in that order; after a completed run that is no
\* dry run the tracks the run accumulated sit at the top of the playlist,
\* last accumulated first, above what the playlist held before the run.
C13_InsertionOrderIsDeterministic ==
  /\ run.pc \in {"window", "songs", "finish", "done"} =>
       /\ \A i \in 1..Len(run.windows) :
            /\ run.windows[i].from < run.windows[i].to
            /\ i > 1 => run.windows[i - 1].to = run.windows[i].from
       /\ run.stats.windowsSkippedFuture + run.stats.windowsSkippedAlreadyDone
            + run.stats.windowsProcessed = run.wi - 1
  /\ (run.pc = "done" /\ ~run.args.dryRun) =>
       playlist = toReversed(urisOf(run.accumulated)) \o base.playlist

\* C13 witness: a run that is no dry run has completed two windows, has made
\* an add request for each, and the playlist held a track before.
C13_Witness ==
  /\ run.pc = "done"
  /\ ~run.args.dryRun
  /\ run.stats.windowsProcessed = 2
  /\ io.adds = 2
  /\ Len(run.accumulated) = 2
  /\ base.playlist # <<>>

\* C14: requests are made at their place in the window (scrape when the
\* window is examined, searches in the song loop, additions and the mark
\* when the window is completed); a window is marked only in a step in which
\* all its accumulated tracks have reached the playlist; and whenever the
\* run can make a further request, the memory it holds is the saved one.
C14_AddThenMarkThenPersist ==
  [][ /\ io'.scrapes > io.scrapes => run.pc = "window"
      /\ io'.searches > io.searches => run.pc = "songs"
      /\ (io'.adds > io.adds \/ io'.marks > io.marks) => run.pc = "finish"
      /\ (run.pc = "finish" /\ io'.marks > io.marks) =>
           /\ playlist' = toReversed(run.urisToAdd) \o playlist
           /\ Len(run.urisToAdd) > 0 => io'.adds > io.adds
      /\ run'.pc \in {"window", "songs", "finish", "done"} =>
           run'.state = loadState(disk')
    ]_vars

\* C14 witness: a window with a matched song was completed with an add
\* request and a mark, and the run goes on with a further window.
C14_Witness ==
  /\ run.pc = "window"
  /\ run.wi = 2
  /\ ~run.args.dryRun
  /\ io.adds = 1
  /\ io.marks = 1
  /\ run.stats.songsMatched = 1

\* C15: a step of a window that fails ends the run and leaves the persisted
\* memory as it was last saved: the entries persisted before the failing
\* step are there after it, and no others.
C15_FailureKeepsPersistedMemory ==
  [][ (run.pc \in {"window", "songs", "finish"} /\ run'.pc = "failed") =>
        memoryEntries(loadState(disk')) = memoryEntries(loadState(disk))
    ]_vars

\* Is the start of the window still ahead of the moment nowParts ?
startStillAhead(date, fromHour, nowParts) ==
  LET d == parseInputDate(date)
  IN \/ d.year > nowParts.year
     \/ d.year = nowParts.year /\ d.month > nowParts.month
     \/ d.year = nowParts.year /\ d.month = nowParts.month /\ d.day > nowParts.day
     \/ /\ d.year = nowParts.year /\ d.month = nowParts.month /\ d.day = nowParts.day
        /\ fromHour * 60 > nowParts.hour * 60 + nowParts.minute

recordedInMemory ==
  windowKeyOf(currentWindow(run)) \in entriesOf(run.state, StationId, run.args.date)

\* C16: when the loop examines a window whose start is ahead of the clock,
\* or, without --force, a window that the memory holds, it moves on to the
\* next window: no request is made, and the playlist, the memory (loaded
\* and saved), the index and the keys seen in the run stay as they are.
C16_SkippedWindowTouchesNothing ==
  [][ (/\ run.pc = "window"
       /\ run' # run
       /\ \/ startStillAhead(run.args.date, currentWindow(run).from, now)
          \/ ~run.args.force /\ recordedInMemory) =>
        /\ io' = io
        /\ playlist' = playlist
        /\ disk' = disk
        /\ run'.state = run.state
        /\ run'.playlistIndex = run.playlistIndex
        /\ run'.runSeenSongKeys = run.runSeenSongKeys
        /\ run'.wi = run.wi + 1
        /\ run'.stats.songsScraped = run.stats.songsScraped
        /\ run'.stats.windowsProcessed = run.stats.windowsProcessed
        /\ run'.stats.windowsSkippedFuture + run'.stats.windowsSkippedAlreadyDone =
             run.stats.windowsSkippedFuture + run.stats.windowsSkippedAlreadyDone + 1
    ]_vars

\* C16 witness: a run without --force has skipped the first of its two
\* windows as already done, and is about to examine the second.
C16_Witness ==
  /\ ~run.args.force
  /\ run.pc = "window"
  /\ run.wi = 2
  /\ run.stats.windowsPlanned = 2
  /\ run.stats.windowsSkippedAlreadyDone = 1
  /\ io = ZeroIo

\* C12: when the call has returned for the accumulated tracks u1..un and the
\* playlist held P, the playlist holds un, ..., u1 followed by P.
C12_BatchesLandNewestFirst ==
  batch.pc = "done" =>
    LET n == Len(batch.uris)
    IN /\ Len(batch.items) = n + Len(batch.before)
       /\ \A i \in 1..n : batch.items[i] = batch.uris[n + 1 - i]
       /\ \A j \in 1..Len(batch.before) : batch.items[n + j] = batch.before[j]

\* C12 witness: a call with more tracks than two requests can carry has
\* returned, for a playlist that was not empty.
C12_Witness ==
  /\ batch.pc = "done"
  /\ Len(batch.uris) > 2 * CHUNK_SIZE
  /\ batch.sent = 3
  /\ batch.before # <<>>

\* The number of requests that a call with these options may make.
budget(options) ==
  IF ~options.hasMaxRetries THEN 4
  ELSE IF options.maxRetries < 1 THEN 1
  ELSE options.maxRetries

\* C17: a call of fetchWithRetry makes at most max(1, maxRetries) requests
\* (4 without the option, 2 with the option of apiRequest), and it ends:
\* it returns a response or throws.
C17_BoundedRequestsAndTermination ==
  /\ [](http.requests <= budget(http.options))
  /\ [](http.pc = "returned" => http.result.kind = "response")
  /\ (http.pc \in {"request", "delay"}) ~> (http.pc \in {"returned", "thrown"})

\* C17 witness: a call with maxRetries 2 has ended after two requests, the
\* second answered with a 503.
C17_Witness ==
  /\ http.pc = "returned"
  /\ http.options = [hasMaxRetries |-> TRUE, maxRetries |-> 2]
  /\ http.requests = 2
  /\ http.result.status = 503

requestsNow == http.pc = "request" /\ http'.requests = http.requests + 1

\* C18: a request that follows an attempt k that failed, timed out or was
\* answered with a 5xx is made after a delay of max(k * 1500, 1500) ms:
\* 1500, 3000 or 4500 ms in a call without the maxRetries option.
C18_BackoffSchedule ==
  [][ (/\ requestsNow
       /\ http.requests >= 1
       /\ http.last.kind \in Errors \/ http.last.status >= 500) =>
        /\ http.slept = (IF http.requests * 1500 > 1500 THEN http.requests * 1500 ELSE 1500)
        /\ ~http.options.hasMaxRetries => http.slept \in {1500, 3000, 4500}
    ]_vars

\* C18 witness: a call without options makes its fourth request, the three
\* before it having failed.
C18_Witness ==
  /\ http.pc = "request"
  /\ ~http.options.hasMaxRetries
  /\ http.requests = 3
  /\ http.last.kind = "timeout"
  /\ http.slept = 4500

\* The wait that a Retry-After header asks for, in ms; 0 when the header
\* is missing or is neither a number of seconds nor a date.
hintOf(header) ==
  IF header.kind = "date" THEN header.ahead
  ELSE IF header.kind = "text" /\ Len(header.text) > 0
          /\ \A i \in DOMAIN header.text : header.text[i] \in Digits
    THEN parseInt(header.text) * 1000
  ELSE 0

clampedHint(header) == IF hintOf(header) < 1500 THEN 1500 ELSE hintOf(header)

\* C19: when a request that is not the last permitted one is answered with
\* a 429, the delay is the hint of the header, at least 1500 ms; above
\* 10000 ms the response is returned and no request follows, otherwise the
\* next request is made after that delay.
C19_RateLimitDelay ==
  [][ /\ (/\ requestsNow
          /\ http'.last.status = 429
          /\ http'.requests < budget(http.options)) =>
            IF clampedHint(http'.last.header) > 10000
            THEN /\ http'.pc = "returned"
                 /\ http'.result = http'.last
            ELSE /\ http'.pc = "delay"
                 /\ http'.delayMs = clampedHint(http'.last.header)
      /\ (requestsNow /\ http.last.status = 429) =>
            /\ http.slept = clampedHint(http.last.header)
            /\ http.slept <= 10000
      /\ http.pc = "returned" => http' = http
      /\ http.pc = "delay" =>
            /\ http'.pc = "request"
            /\ http'.requests = http.requests
            /\ http'.slept = http.delayMs
    ]_vars

\* C19 witness: a request is about to be made after a wait of exactly
\* 10000 ms that a 429 asked for.
C19_Witness ==
  /\ http.pc = "request"
  /\ http.last.status = 429
  /\ http.slept = 10000
  /\ http.requests = 1

\* C20: the last permitted request is not retried: a response of any status
\* is returned as it is, and an error is thrown as it is.
C20_FinalAttemptIsFinal ==
  [][ (requestsNow /\ http'.requests = budget(http.options)) =>
        /\ http'.last.kind = "response" =>
             http'.pc = "returned" /\ http'.result = http'.last
        /\ http'.last.kind \in Errors =>
             http'.pc = "thrown" /\ http'.result.kind = http'.last.kind
    ]_vars

\* C20 witness: the fourth of four requests was answered with a 429, which
\* was returned.
C20_Witness ==
  /\ http.requests = 4
  /\ http.pc = "returned"
  /\ http.result.status = 429

\* C21: fetchWithRetry rejects only when the request of its last permitted
\* attempt has itself failed, and then with that failure: a request that
\* fails on an earlier attempt is followed by a delay and another request,
\* and the RetryableFetchError of the retries never reaches the caller.
C21_RejectsOnlyOnFinalFailure ==
  /\ [](http.pc = "thrown" =>
          /\ http.requests = budget(http.options)
          /\ http.last.kind \in Errors
          /\ http.result.kind = http.last.kind)
  /\ [][ /\ (requestsNow /\ http'.last.kind \in Errors
                         /\ http'.requests < budget(http.options))
              => http'.pc = "delay"
         /\ http.pc = "delay" => http'.pc = "request" /\ http'.requests = http.requests
     ]_vars

\* C21 witness: the fourth of four requests timed out after an earlier
\* retry, and the call has rejected with the timeout.
C21_Witness ==
  /\ http.pc = "thrown"
  /\ http.requests = 4
  /\ http.retryAttempts = 3
  /\ http.result.kind = "timeout"

\* C23: for 0 <= f < t <= 24 and w in {1, 2}, buildWindows(f, t, w) is an
\* ordered list of windows that covers [f, t) without gap or overlap: the
\* first window starts at f, each window starts where the one before it
\* ends, the last ends at t, every window has from < to and is w hours long,
\* except that the last may be shorter; buildWindows(0, 5, 2) is
\* [0,2], [2,4], [4,5].
C23_WindowsCoverRange ==
  (calc.fn = "buildWindows" /\ calc.done) =>
    LET windows == calc.out
        n == Len(windows)
    IN /\ n >= 1
       /\ windows[1].from = calc.args.from
       /\ windows[n].to = calc.args.to
       /\ \A i \in 1..n :
            /\ windows[i].from < windows[i].to
            /\ windows[i].to - windows[i].from <= calc.args.window
            /\ i < n => /\ windows[i].to - windows[i].from = calc.args.window
                        /\ windows[i + 1].from = windows[i].to
       /\ (calc.args = [from |-> 0, to |-> 5, window |-> 2]) =>
            windows = << [from |-> 0, to |-> 2], [from |-> 2, to |-> 4],
                         [from |-> 4, to |-> 5] >>

\* C23 witness: buildWindows(0, 5, 2) has returned three windows, the last
\* of them one hour long.
C23_Witness ==
  /\ calc.fn = "buildWindows"
  /\ calc.done
  /\ calc.args = [from |-> 0, to |-> 5, window |-> 2]
  /\ Len(calc.out) = 3
  /\ calc.out[3] = [from |-> 4, to |-> 5]

\* C24: chooseBestTrack returns the best-scoring album candidate when the
\* highest-scoring candidate is a single and that album candidate scores
\* no less than the highest score minus 12; in every other case it returns
\* the highest-scoring candidate (of candidates with the same score the one
\* that the search listed first counts as the better).
C24_AlbumPreferredWithinTwelve ==
  (calc.fn = "findTrackForSong" /\ calc.done /\ Len(calc.args.candidates) > 0) =>
    LET c == calc.args.candidates
        score(i) == calc.out.scored[i].score
        firstBest(among) ==
          CHOOSE i \in among :
            \A j \in among : score(j) < score(i) \/ (score(j) = score(i) /\ i <= j)
        albums == { i \in DOMAIN c : c[i].album_type = "album" }
        top == firstBest(DOMAIN c)
    IN calc.out.track =
         IF /\ c[top].album_type = "single"
            /\ albums # {}
            /\ score(firstBest(albums)) >= score(top) - 15 * 12
         THEN c[firstBest(albums)]
         ELSE c[top]

\* C24 witness: a single scores 163 and an album edition 151, exactly 12
\* less, and the album edition is returned.
C24_Witness ==
  /\ calc.fn = "findTrackForSong"
  /\ calc.done
  /\ calc.args.song = S1
  /\ Len(calc.args.candidates) = 2
  /\ calc.args.candidates[1].id = "k5"
  /\ calc.args.candidates[2].id = "k4"
  /\ calc.out.scored[1].score = 15 * 163
  /\ calc.out.scored[2].score = 15 * 151
  /\ calc.out.track.id = "k4"

\* C25: the score of a candidate is the sum of: title, 120 when the
\* normalized titles are equal, else 75 when one contains the other (the
\* empty title is contained in every title), else 0; artist, 100 when the
\* normalized artist of the song is not empty and a normalized artist of
\* the candidate that is not empty equals it, contains it or is contained
\* in it, else 0; release type, 28 for an album, -12 for a single, else 0;
\* and min(popularity, 100) / 15.  (Scores are kept as fifteenths.)
C25_ScoreIsSumOfParts ==
  (calc.fn = "findTrackForSong" /\ calc.done) =>
    \A i \in DOMAIN calc.args.candidates :
      LET t == calc.args.candidates[i]
          title == normalize(calc.args.song.title)
          artist == normalize(calc.args.song.artist)
          name == normalize(t.name)
          titlePart == IF name = title THEN 120
                       ELSE IF includes(name, title) \/ includes(title, name) THEN 75
                       ELSE 0
          artistPart == IF /\ artist # <<>>
                           /\ \E k \in DOMAIN t.artists :
                                LET a == normalize(t.artists[k])
                                IN a # <<>> /\ (includes(a, artist) \/ includes(artist, a))
                        THEN 100 ELSE 0
          typePart == CASE t.album_type = "album" -> 28
                        [] t.album_type = "single" -> 0 - 12
                        [] OTHER -> 0
          popularityPart == IF t.popularity < 100 THEN t.popularity ELSE 100
      IN calc.out.scored[i].score = 15 * (titlePart + artistPart + typePart) + popularityPart

\* C25 as the claim states it: every normalized artist of the candidate
\* counts for the artist part, an empty one too, and the empty string is
\* contained in the artist of the song.
C25_ScoreIsSumOfParts_AsStated ==
  (calc.fn = "findTrackForSong" /\ calc.done) =>
    \A i \in DOMAIN calc.args.candidates :
      LET t == calc.args.candidates[i]
          title == normalize(calc.args.song.title)
          artist == normalize(calc.args.song.artist)
          name == normalize(t.name)
          titlePart == IF name = title THEN 120
                       ELSE IF includes(name, title) \/ includes(title, name) THEN 75
                       ELSE 0
          artistPart == IF /\ artist # <<>>
                           /\ \E k \in DOMAIN t.artists :
                                LET a == normalize(t.artists[k])
                                IN includes(a, artist) \/ includes(artist, a)
                        THEN 100 ELSE 0
          typePart == CASE t.album_type = "album" -> 28
                        [] t.album_type = "single" -> 0 - 12
                        [] OTHER -> 0
          popularityPart == IF t.popularity < 100 THEN t.popularity ELSE 100
      IN calc.out.scored[i].score = 15 * (titlePart + artistPart + typePart) + popularityPart

\* C25 witness: for the song "Ha" by "Ab" a single "Ha" of the artist "!",
\* whose normalized name is empty, scores 120 - 12 + 30/15, and an album
\* track "Ha x" of "!" and "Abc" with popularity 100 scores
\* 75 + 100 + 28 + 100/15.
C25_Witness ==
  /\ calc.fn = "findTrackForSong"
  /\ calc.done
  /\ calc.args.song = S1
  /\ Len(calc.args.candidates) = 2
  /\ calc.args.candidates[1].id = "k8"
  /\ calc.args.candidates[2].id = "k11"
  /\ calc.out.scored[1].score = 15 * 108 + 30
  /\ calc.out.scored[2].score = 15 * 203 + 100

\* C26: findTrackForSong returns no track if and only if the search returned
\* no candidates; when the search returned candidates, the track returned
\* is one of them, however low its score.
C26_UnmatchedIffNoCandidates ==
  (calc.fn = "findTrackForSong" /\ calc.done) =>
    /\ calc.out.track = NoTrack <=> Len(calc.args.candidates) = 0
    /\ Len(calc.args.candidates) > 0 =>
         \E i \in DOMAIN calc.args.candidates : calc.out.track = calc.args.candidates[i]

\* C26 witness: the only candidate is a single of another artist with
\* another title, which scores -12, and it is returned.
C26_Witness ==
  /\ calc.fn = "findTrackForSong"
  /\ calc.done
  /\ calc.args.song = S1
  /\ Len(calc.args.candidates) = 1
  /\ calc.out.scored[1].score = 0 - 15 * 12
  /\ calc.out.track.id = "k9"

\* C27: artist/title pairs that differ only by letter case, diacritics,
\* bracketed or parenthetical suffixes, or trailing feat/ft clauses have the
\* same key "<normalized artist>|<normalized title>"; the key of "Béyoncé"
\* and "Halo (Live)" is "beyonce|halo".
C27_SpellingsShareKey ==
  (calc.fn = "buildSongKey" /\ calc.done) =>
    /\ calc.out.otherKey = calc.out.key
    /\ (calc.args.artist = <<"B","e","y","o","n","c","e">>
          /\ calc.args.title = <<"H","a","l","o">>
          /\ calc.args.how = <<"acute", "paren">>) =>
         /\ calc.args.otherArtist = <<"B","é","y","o","n","c","é">>
         /\ calc.out.otherKey =
              <<"b","e","y","o","n","c","e","|","h","a","l","o">>

\* C30: the index that getPlaylistTrackIndex builds is the union over all
\* pages of the playlist, without a cap: for every item of the playlist, on
\* whatever page, that has an id, a name and at least one artist, the id set
\* holds its id and the key set its song key; the index is the one built
\* from the items of the whole playlist at once, as the run takes it.
C30_IndexIsUnionOfAllPages ==
  (calc.fn = "getPlaylistTrackIndex" /\ calc.done) =>
    /\ \A i \in DOMAIN calc.args.items :
         LET item == CHOOSE t \in Catalogue : t.uri = calc.args.items[i]
         IN (item.id # "" /\ Len(item.name) > 0 /\ Len(item.artists) > 0) =>
              /\ item.id \in calc.out.trackIds
              /\ trackKeyOf[item] \in calc.out.songKeys
    /\ calc.out = getPlaylistTrackIndex(calc.args.items, 1)

\* C30 witness: the playlist has 101 items, three pages; the only item of
\* the third page is the only one with id, name and artist, and it is in
\* the index.
C30_Witness ==
  /\ calc.fn = "getPlaylistTrackIndex"
  /\ calc.done
  /\ Len(calc.args.items) = 2 * PAGE_LIMIT + 1
  /\ calc.args.at = 2 * PAGE_LIMIT + 1
  /\ calc.args.items[1] = T3.uri
  /\ calc.out = [trackIds |-> {T1.id}, songKeys |-> {trackKeyOf[T1]}]

\* C22: a response whose status is neither 429 nor 5xx is returned by the
\* attempt that received it, and the call makes no further request; when a
\* call returns a response that is not ok to the run during a window (from
\* the source, the search or the addition), the run is aborted at once,
\* with no further request, delay or save, and the window is not marked.
C22_NonOkResponseAbortsRun ==
  /\ [][ /\ (/\ http.pc = "request"
             /\ http'.requests = http.requests + 1
             /\ http'.last.kind = "response"
             /\ http'.last.status # 429
             /\ http'.last.status < 500)
            => (http'.pc = "returned" /\ http'.result = http'.last)
         /\ http.pc = "returned" => http' = NoCall
         /\ (/\ wire.at \in {"scrape", "search", "add"}
             /\ http.pc = "returned"
             /\ (http.result.status < 200 \/ http.result.status > 299))
            => /\ run'.pc = "failed"
               /\ wire'.at = "idle"
               /\ wire'.inFlight = 0
               /\ wire'.reached.status = http.result.status
               /\ disk' = disk
               /\ playlist' = playlist
               /\ io' = io
               /\ ~isWindowAlreadyProcessed(loadState(disk'), StationId, run.args.date,
                                            windowKeyOf(currentWindow(run)))
         /\ run.pc # "failed"
     ]_vars

\* C22 witness: the window 22-23 was completed and marked; in the window
\* 23-24 the search for a song was answered with a 429 that was not
\* retried, and the run has failed with the window 23-24 unmarked.
C22_Witness ==
  /\ run.pc = "failed"
  /\ wire.reached.kind = "response"
  /\ wire.reached.status = 429
  /\ io.scrapes = 2
  /\ io.searches = 1
  /\ io.marks = 1
  /\ isWindowAlreadyProcessed(loadState(disk), StationId, D1, "22-23")
  /\ ~isWindowAlreadyProcessed(loadState(disk), StationId, D1, "23-24")

\* C28: a run is strictly sequential: at most one request is in flight at
\* any moment, and it is the one the run awaits; while the run awaits a
\* pacing delay or the save no request is in flight; the run makes its
\* next request or goes on to the next song or window only when no request
\* is in flight, and while a delay is pending only the end of that delay
\* happens; so no two songs are handled at the same time.
C28_RunIsSequential ==
  /\ [](/\ wire.inFlight <= 1
        /\ wire.inFlight = 1 =>
             (wire.at \in {"scrape", "search", "add"} /\ http.pc = "request")
        /\ wire.at \in {"sourceDelay", "spotifyDelay", "save", "added", "idle"} =>
             (wire.inFlight = 0 /\ http.pc = "idle"))
  /\ [][ /\ wire'.inFlight > wire.inFlight => wire.inFlight = 0
         /\ (run' # run \/ io' # io) => wire.inFlight = 0
         /\ wire.at \in {"sourceDelay", "spotifyDelay"} =>
              (run' = run /\ wire'.at # wire.at)
         /\ run'.si # run.si => (run'.si = run.si + 1 \/ run'.si = 1)
     ]_vars

\* C28 witness: the search for the second song of a window is in flight,
\* after the search for the first song has ended and the delay between two
\* songs has elapsed.
C28_Witness ==
  /\ wire.inFlight = 1
  /\ wire.at = "search"
  /\ wire.spotifyDelayMs > 0
  /\ run.pc = "songs"
  /\ run.si = 2
  /\ io.searches = 2

\* C29: when the inter-window delay is positive, a window that was scraped
\* and completed is followed by that delay, however it ended (marked or
\* not, with tracks added or none, dry run or not), before the next window
\* is examined; so between two consecutive scrapes of a run (calls of
\* scrapeSongsFromSource, each with the retries fetchWithRetry makes for it)
\* at least one full delay is awaited.
C29_DelayBetweenScrapes ==
  /\ []((/\ wire.sourceDelayMs > 0
         /\ run.pc = "window"
         /\ wire.at = "idle"
         /\ io.scrapes >= 1) => wire.paused >= wire.sourceDelayMs)
  /\ [][ wire.sourceDelayMs > 0 =>
           /\ (run.pc = "finish" /\ run'.pc \in {"window", "done"}) =>
                wire'.at = "sourceDelay"
           /\ (wire'.at = "scrape" /\ wire.at # "scrape" /\ io.scrapes >= 1) =>
                wire.paused >= wire.sourceDelayMs
           /\ wire.at = "sourceDelay" =>
                (wire'.at = "idle" /\ wire'.paused = wire.paused + wire.sourceDelayMs)
     ]_vars

\* C29 witness: the second window of a run is being scraped, after the
\* first was scraped and completed and the delay of 2500 ms was awaited.
C29_Witness ==
  /\ wire.sourceDelayMs = DEFAULT_SOURCE_DELAY_MS
  /\ wire.at = "scrape"
  /\ run.wi = 2
  /\ io.scrapes = 2
  /\ run.stats.windowsProcessed = 1

\* C32: every search of a run is followed by what the track it chose asks
\* for.  When the id of the chosen track is in the index, the song is not
\* accumulated for addition, the scraped key and the key built from the
\* track are both put into the key set of the index, the scraped key is
\* recorded as seen in the run, and the song is counted as already present
\* and not as matched; otherwise it is not counted as already present: it
\* is counted unmatched when nothing was chosen, and matched and accumulated
\* when the chosen track is new.
C32_KnownTrackIsSkippedWithBothKeys ==
  [][ (run.pc = "songs" /\ io'.searches = io.searches + 1 /\ run'.pc # "failed") =>
        \E candidates \in SearchResults :
          LET spotifyTrack == findTrackForSong(currentSong(run), candidates)
              songKey == songKeyOf[currentSong(run)]
              same(field) == run'.stats[field] = run.stats[field]
              more(field) == run'.stats[field] = run.stats[field] + 1
          IN /\ run'.runSeenSongKeys = run.runSeenSongKeys \cup {songKey}
             /\ same("songsDuplicateSkipped")
             /\ IF spotifyTrack = NoTrack
                  THEN /\ more("songsUnmatched")
                       /\ same("songsAlreadyInPlaylistSkipped") /\ same("songsMatched")
                       /\ run'.urisToAdd = run.urisToAdd
                       /\ run'.playlistIndex = run.playlistIndex
                ELSE IF spotifyTrack.id \in run.playlistIndex.trackIds
                  THEN /\ more("songsAlreadyInPlaylistSkipped")
                       /\ same("songsMatched") /\ same("songsUnmatched")
                       /\ run'.urisToAdd = run.urisToAdd
                       /\ run'.accumulated = run.accumulated
                       /\ run'.playlistIndex.trackIds = run.playlistIndex.trackIds
                       /\ run'.playlistIndex.songKeys =
                            run.playlistIndex.songKeys \cup {songKey, trackKeyOf[spotifyTrack]}
                ELSE /\ more("songsMatched")
                     /\ same("songsAlreadyInPlaylistSkipped") /\ same("songsUnmatched")
                     /\ run'.urisToAdd = Append(run.urisToAdd, spotifyTrack.uri)
    ]_vars

\* C32 witness: the first song of a run, scraped without an artist, was
\* searched for under a key that the index did not hold; the track chosen
\* for it was already in the playlist, and the song was skipped as already
\* present.
C32_Witness ==
  /\ io.searches = 1
  /\ run.stats.songsScraped >= 1
  /\ run.stats.songsAlreadyInPlaylistSkipped = 1
  /\ run.stats.songsMatched = 0
  /\ run.accumulated = <<>>
  /\ run.urisToAdd = <<>>
  /\ playlist = <<T1.uri>>
  /\ run.playlistIndex.trackIds = {T1.id}
  /\ run.playlistIndex.songKeys = {trackKeyOf[T1], songKeyOf[S3]}
  /\ run.runSeenSongKeys = {songKeyOf[S3]}
  /\ songKeyOf[S3] # trackKeyOf[T1]

\* C33: a search is issued only for a scraped song whose key is neither
\* seen in the run nor in the key set of the index, and the song it is
\* issued for has its key recorded as seen when the search has answered;
\* the keys seen in a run are never forgotten, so that the searches of a run
\* are at most as many as the distinct keys it has seen that the index did
\* not hold when it was built.
C33_OneSearchPerKey ==
  /\ [][ /\ io'.searches > io.searches =>
              /\ run.pc = "songs"
              /\ io'.searches = io.searches + 1
              /\ songKeyOf[currentSong(run)] \notin run.runSeenSongKeys
              /\ songKeyOf[currentSong(run)] \notin run.playlistIndex.songKeys
              /\ run'.pc # "failed" => songKeyOf[currentSong(run)] \in run'.runSeenSongKeys
         /\ (run.pc = "songs" /\ ~needsSearch(run)) => io'.searches = io.searches
         /\ (run.pc \in {"window", "songs", "finish"} /\ run'.pc # "failed") =>
              run.runSeenSongKeys \subseteq run'.runSeenSongKeys
     ]_vars
  /\ [](run.pc \in {"window", "songs", "finish", "done"} =>
          io.searches <= Cardinality(run.runSeenSongKeys
                                      \ getPlaylistTrackIndex(base.playlist, 1).songKeys))

\* C33 witness: two songs of a run had the same key, which the index did
\* not hold; the first was searched for and the second was not.
C33_Witness ==
  /\ io.searches = 1
  /\ run.stats.songsScraped = 2
  /\ run.stats.songsDuplicateSkipped = 1
  /\ run.stats.songsAlreadyInPlaylistSkipped = 0
  /\ Cardinality(run.runSeenSongKeys) = 1
  /\ run.pc = "finish"

\* C34: with --force, a window whose start is not ahead of the clock is
\* scraped whether the memory holds it or not, and a window whose start is
\* ahead is skipped as future, as it is without --force; a window completed
\* with --force is marked and saved, again if it was marked before, exactly
\* when the run is no dry run and the end of the window is not ahead of the
\* clock, and the marking keeps the entries that the memory held.
C34_ForceBypassesMemoryOnly ==
  /\ [][ (run.args.force /\ run' # run) =>
           /\ run.pc = "window" =>
                IF startStillAhead(run.args.date, currentWindow(run).from, now)
                THEN /\ io' = io
                     /\ run'.stats.windowsSkippedFuture = run.stats.windowsSkippedFuture + 1
                ELSE /\ io'.scrapes = io.scrapes + 1
                     /\ run'.pc \in {"songs", "finish", "failed"}
                     /\ run'.pc # "failed" =>
                          /\ run'.wi = run.wi
                          /\ run'.stats.windowsSkippedAlreadyDone =
                               run.stats.windowsSkippedAlreadyDone
           /\ (run.pc = "finish" /\ run'.pc # "failed") =>
                LET key == windowKeyOf(currentWindow(run))
                    before == entriesOf(run.state, StationId, run.args.date)
                IN IF ~run.args.dryRun
                      /\ ~endStillAhead(run.args.date, currentWindow(run).to, now)
                   THEN /\ io'.marks = io.marks + 1
                        /\ entriesOf(run'.state, StationId, run.args.date) = before \cup {key}
                        /\ disk' = run'.state
                   ELSE /\ io'.marks = io.marks
                        /\ run'.state = run.state
                        /\ disk' = disk
     ]_vars
  /\ [](run.pc = "window" =>
          ((classify([run EXCEPT !.args.force = TRUE], now) = "future")
             <=> (classify([run EXCEPT !.args.force = FALSE], now) = "future")))

\* C34 witness: a second run, with --force, has scraped and marked again a
\* window that the memory already held when the run started.
C34_Witness ==
  /\ runs = 2
  /\ run.args.force
  /\ ~run.args.dryRun
  /\ run.stats.windowsProcessed = 1
  /\ run.stats.windowsSkippedAlreadyDone = 0
  /\ io.scrapes = 1
  /\ io.marks = 1
  /\ windowKeyOf(run.windows[1]) \in entriesOf(base.state, StationId, run.args.date)
  /\ windowKeyOf(run.windows[1]) \in entriesOf(loadState(disk), StationId, run.args.date)

\* C35: every planned window is classified once: while the loop runs, the
\* windows skipped as future, skipped as already done and processed are as
\* many as the windows the loop has left behind, and when the run completes
\* normally they are as many as the windows planned; in a run that is no dry
\* run, the windows processed are the windows the run has marked together
\* with the windows it has counted as not marked because not in the past.
C35_WindowCountersAddUp ==
  LET s == run.stats
      classified == s.windowsSkippedFuture + s.windowsSkippedAlreadyDone + s.windowsProcessed
  IN /\ run.pc \in {"window", "songs", "finish", "done"} =>
          /\ s.windowsPlanned = Len(run.windows)
          /\ classified = run.wi - 1
          /\ ~run.args.dryRun => s.windowsProcessed = io.marks + s.windowsNotMarkedNotInPast
     /\ run.pc = "done" =>
          /\ s.windowsPlanned = classified
          /\ s.windowsPlanned >= 1

\* C35 witness: a run that is no dry run has completed with two windows
\* planned and processed, the first marked and the second not, as it had
\* not ended.
C35_Witness ==
  /\ run.pc = "done"
  /\ ~run.args.dryRun
  /\ run.stats.windowsPlanned = 2
  /\ run.stats.windowsProcessed = 2
  /\ io.marks = 1
  /\ run.stats.windowsNotMarkedNotInPast = 1

\* C36: when the songs of a window have all been handled, every song scraped
\* so far in the run is counted in one outcome: duplicate, already in the
\* playlist, matched or unmatched; and when the window is completed in a
\* run that is no dry run, the tracks counted as added, the songs counted
\* as matched and the tracks by which the playlist has grown since the run
\* started are equally many.
C36_SongCountersAddUp ==
  LET s == run.stats
  IN /\ run.pc \in {"finish", "window", "done"} =>
          s.songsScraped = s.songsDuplicateSkipped + s.songsAlreadyInPlaylistSkipped
                             + s.songsMatched + s.songsUnmatched
     /\ (run.pc \in {"window", "done"} /\ ~run.args.dryRun) =>
          /\ s.tracksAdded = s.songsMatched
          /\ s.songsMatched = Len(playlist) - Len(base.playlist)
          /\ s.songsMatched = Len(run.accumulated)

\* C36 witness: a run that is no dry run has completed a window whose two
\* songs were matched with two tracks, which the playlist has received.
C36_Witness ==
  /\ run.pc = "done"
  /\ ~run.args.dryRun
  /\ run.stats.windowsProcessed = 1
  /\ run.stats.songsScraped = 2
  /\ run.stats.songsMatched = 2
  /\ run.stats.tracksAdded = 2
  /\ Len(playlist) = Len(base.playlist) + 2

\* C37: for a list of candidates that is not empty, the track that
\* chooseBestTrack returns scores no less than the highest score minus 12,
\* and it scores less than the highest score only when it is an album and
\* the candidate ranked first is a single; the ranking puts a higher score
\* before a lower one and, of two candidates with the same score, the one
\* that the search listed first before the other.
C37_ChosenWithinTwelveOfTop ==
  (calc.fn = "findTrackForSong" /\ calc.done /\ Len(calc.args.candidates) > 0) =>
    LET c == calc.args.candidates
        scored == calc.out.scored
        ranked == calc.out.ranked
        highest == CHOOSE m \in { scored[i].score : i \in DOMAIN c } :
                     \A i \in DOMAIN c : scored[i].score <= m
        listed(track) == CHOOSE i \in DOMAIN c : c[i] = track
        chosen == listed(calc.out.track)
    IN /\ calc.out.track \in { c[i] : i \in DOMAIN c }
       /\ scored[chosen].score >= highest - 15 * 12
       /\ scored[chosen].score < highest =>
            /\ c[chosen].album_type = "album"
            /\ ranked[1].track.album_type = "single"
            /\ ranked[1].score = highest
       /\ Len(ranked) = Len(c)
       /\ { ranked[i] : i \in DOMAIN ranked } = { scored[i] : i \in DOMAIN c }
       /\ \A i, j \in DOMAIN ranked :
            i < j =>
              \/ ranked[i].score > ranked[j].score
              \/ /\ ranked[i].score = ranked[j].score
                 /\ listed(ranked[i].track) < listed(ranked[j].track)

\* C37 witness: two album editions score the same, 151; the one that the
\* search listed first is ranked first and returned.
C37_Witness ==
  /\ calc.fn = "findTrackForSong"
  /\ calc.done
  /\ calc.args.song = S1
  /\ Len(calc.args.candidates) = 2
  /\ calc.args.candidates[1].id = "k13"
  /\ calc.args.candidates[2].id = "k4"
  /\ calc.out.scored[1].score = 15 * 151
  /\ calc.out.scored[2].score = 15 * 151
  /\ calc.out.ranked[1].track.id = "k13"
  /\ calc.out.track.id = "k13"

\* C39: the wait is settled once, by the first event that asks for it.  Of
\* the callback requests with a code, with an error or without a code, the
\* error of the server and the timeout, the first to occur sets `settled`
\* and decides how the promise is settled (resolved with the code, or
\* rejected); the events after it leave the decision and the promise as
\* they are, and a promise that is settled stays as it is.  A request to
\* another path than the callback path is answered 404 and settles
\* nothing.  Once waitForAuthorizationCode is called, the promise it
\* returned is settled in the end.
C39_SettlesOnceByFirstEvent ==
  /\ [](/\ auth.settled <=> auth.first.state # "pending"
        /\ Len(auth.onClose) <= 1
        /\ \A i \in DOMAIN auth.onClose : auth.onClose[i] = auth.first
        /\ auth.promise.state # "pending" => auth.promise = auth.first
        /\ auth.requests > 0 =>
             IF auth.last.path = auth.callbackPath THEN auth.last.status \in {200, 400}
             ELSE auth.last.status = 404)
  /\ [][ /\ auth.promise.state # "pending" => auth'.promise = auth.promise
         /\ auth.settled =>
              /\ auth'.settled
              /\ auth'.first = auth.first
              /\ auth'.onClose \in {auth.onClose, <<>>}
         /\ (auth'.requests = auth.requests + 1 /\ auth'.last.path # auth.callbackPath) =>
              /\ auth'.last.status = 404
              /\ auth' = [auth EXCEPT !.requests = auth'.requests, !.last = auth'.last]
     ]_vars
  /\ (auth.pc = "called") ~> (auth.promise.state # "pending")

\* C39 witness: the promise is resolved with the code of the first callback
\* request, although a request with an error, the timeout and an error of
\* the server came after it, before the server had closed.
C39_Witness ==
  /\ auth.promise = resolved("c1")
  /\ auth.first = resolved("c1")
  /\ auth.requests = 2
  /\ auth.last = [path |-> auth.callbackPath, status |-> 400]
  /\ auth.timer = "fired"
  /\ auth.errored
  /\ auth.server = "closed"

\* The precondition of buildWindows, in the words of its contract.
withinPrecondition(from, to, window) ==
  /\ 0 <= from /\ from <= 23
  /\ 1 <= to /\ to <= 24
  /\ from < to
  /\ window \in {1, 2}

\* The three options of a command line are integers within the precondition.
acceptable(raw) ==
  LET timeFrom == parseIntegerString(raw.from, 0)
      timeTo == parseIntegerString(raw.to, DEFAULT_TIME_TO)
      windowHours == parseIntegerString(raw.window, DEFAULT_WINDOW_HOURS)
  IN /\ timeFrom.ok /\ timeTo.ok /\ windowHours.ok
     /\ withinPrecondition(timeFrom.value, timeTo.value, windowHours.value)

\* The command has got past the validation of its options.
pastOptions ==
  \/ boot.pc \in {"load", "save", "user", "meta", "index", "loop"}
  \/ boot.pc = "failed" /\ boot.failedAt # "options"

\* C31: sync goes on past its validation only with 0 <= from <= 23,
\* 1 <= to <= 24, from < to and window 1 or 2, and with any other value it
\* aborts there.  When it aborts there, the state has been neither loaded
\* nor written, no request has gone to Spotify and no window has been
\* scraped (the only thing that may have happened is the lookup of the
\* station's label in the catalogue of stations, which line 422 makes before
\* the options are read).  So buildWindows is called within its
\* precondition only, and the windows it plans are at least one.
C31_OnlyValidRangesGetPastValidation ==
  /\ pastOptions => withinPrecondition(boot.args.from, boot.args.to, boot.args.window)
  /\ boot.pc = "failed" /\ boot.failedAt = "options" =>
       /\ ~acceptable(boot.raw)
       /\ \A i \in DOMAIN boot.did : boot.did[i] = "fetchStationsFromOdsluchaneSource"
       /\ io = ZeroIo
       /\ disk = NoFile
       /\ playlist = base.playlist
       /\ run = BlankRun("failed", boot.args)
  /\ boot.pc \in {"idle", "station", "options"} =>
       /\ boot.did \in {<<>>, <<"fetchStationsFromOdsluchaneSource">>}
       /\ io = ZeroIo
       /\ disk = NoFile
       /\ playlist = base.playlist \/ boot.pc = "idle"
  /\ boot.pc = "loop" /\ run.pc # "failed" =>
       /\ run.windows = buildWindows(run.args.from, run.args.to, run.args.window)
       /\ withinPrecondition(run.args.from, run.args.to, run.args.window)
       /\ Len(run.windows) >= 1
       /\ run.stats.windowsPlanned = Len(run.windows)

\* An empty range of hours, --from 22 --to 22, has aborted the command after
\* the catalogue of stations was requested, and nothing else was done.
C31_Witness ==
  /\ boot.pc = "failed"
  /\ boot.failedAt = "options"
  /\ boot.raw.from = TextOption(<<"2","2">>)
  /\ boot.raw.to = TextOption(<<"2","2">>)
  /\ boot.raw.window = NoOption
  /\ boot.did = <<"fetchStationsFromOdsluchaneSource">>
  /\ io = ZeroIo
  /\ disk = NoFile

\* The playlist that Spotify has answered with is neither owned by the
\* account nor collaborative.
unwritable == ~boot.isOwner /\ ~boot.collaborative

\* C38: when the playlist of the station is neither owned by the account nor
\* collaborative and the command is no dry run, sync aborts before the index
\* of the playlist is loaded: no window is scraped, nothing is searched, no
\* track is added and no window is marked in the state.  Nothing else stops
\* the command there: the index is loaded only for a playlist that is owned
\* or collaborative, or in a dry run; and a dry run on a playlist that is
\* neither goes through its windows as any dry run does, adding no track
\* and writing no state.
C38_UnwritablePlaylistAbortsUnlessDryRun ==
  /\ boot.pc = "failed" /\ boot.failedAt = "writable" =>
       /\ unwritable
       /\ ~boot.args.dryRun
       /\ \A i \in DOMAIN boot.did : boot.did[i] \notin {"getPlaylistTrackIndex", "buildWindows"}
       /\ io = ZeroIo
       /\ playlist = base.playlist
       /\ loadState(disk).scrapedWindows = EmptyMap
       /\ run = BlankRun("failed", boot.args)
  /\ (\E i \in DOMAIN boot.did : boot.did[i] = "getPlaylistTrackIndex") =>
       \/ ~unwritable
       \/ boot.args.dryRun
  /\ boot.pc = "loop" /\ unwritable =>
       /\ run.args.dryRun
       /\ io.adds = 0
       /\ io.marks = 0
       /\ playlist = base.playlist
       /\ loadState(disk).scrapedWindows = EmptyMap
       /\ run.pc = "done" =>
            /\ run.wi = Len(run.windows) + 1
            /\ run.stats.windowsPlanned =
                 run.stats.windowsSkippedFuture + run.stats.windowsProcessed

\* A command that is no dry run has saved the mapping and has aborted on a
\* playlist that it may not write.
C38_Witness ==
  /\ boot.pc = "failed"
  /\ boot.failedAt = "writable"
  /\ unwritable
  /\ ~boot.args.dryRun
  /\ boot.did[Len(boot.did)] = "getPlaylistMeta"
  /\ disk = boot.state
  /\ io = ZeroIo

\* A dry run on such a playlist has completed with a song matched.
C38_DryRunCompletes ==
  /\ boot.pc = "loop"
  /\ unwritable
  /\ run.pc = "done"
  /\ run.args.dryRun
  /\ run.stats.songsMatched >= 1
  /\ io.scrapes >= 1

==========================================================================
